---- MODULE Spec2Model ----
(***************************************************************************)
(* Model of the persistent counter store and the combo-sequence            *)
(* orchestrator of robotray_dash_backup2feb.py.                            *)
(*                                                                         *)
(* Part 1: TEST_COUNTER, load_test_counter, get_next_test_number and the   *)
(* config file .robotray_config.json with its temp file.                   *)
(* Part 2: start_x550_combo_sequence, _2 and _3 with the stage advance.    *)
(* Part 3: the devices: SerialStage of 550_app_v4.py, and TrayConnection,  *)
(* find_tray_port, connect_all and X550Connection of the dashboard.        *)
(***************************************************************************)
EXTENDS Integers, Sequences, FiniteSets, TLC

\* ---------------------------------------------------------------- bounds
\* no callback is started any more once TEST_COUNTER has passed it
MaxCounter == 3
\* largest combo_count a sequence is started with
MaxReps == 2
\* largest number of data rows of tray_sequence.txt
MaxRows == 3
\* largest coordinate a stage move is asked for
MaxPos == 2
\* most serial handles left open without an owner at one time
MaxLeaked == 2
\* most serial devices comports() lists
MaxPorts == 3
\* beams of an acquisition configuration, seconds entered per beam
MaxBeams == 2
MaxSec == 3

\* ------------------------------------------------------ program constants
\* max_retries = 3 in get_next_test_number
max_retries == 3
\* TEST_COUNTER = 1 at module level, and the default of config.get
DEFAULT_TEST_COUNTER == 1

\* TRAY_SEQUENCE_ROW = 2 at module level and after a reset
FIRST_ROW == 2

\* FIRST_CUP_X = FIRST_CUP_Y = 10.0, LAST_CUP_X = 11.0, LAST_CUP_Y = 9.0 at
\* module level
DEFAULT_FIRST_CUP == [x |-> 10, y |-> 10]
DEFAULT_LAST_CUP == [x |-> 11, y |-> 9]
\* "X = first_x + 63, Y = first_y - 98"
last_cup_of(first) == [x |-> first.x + 63, y |-> first.y - 98]
NoCup == [has |-> FALSE, x |-> 0, y |-> 0]

\* JSON values: a number, a string, an object (a function on its keys) or a
\* list, each with its type
Num(n) == [t |-> "num", v |-> n]
Str(x) == [t |-> "str", v |-> x]
Dict(f) == [t |-> "dict", v |-> f]
List(q) == [t |-> "list", v |-> q]
\* store-acq = None
NoConfig == [t |-> "None", v |-> 0]

\* Dash serves callbacks from request threads: two of them are modelled
Threads == {"t1", "t2"}

\* who executes a Forward step: a request thread that runs a sequence, or
\* the request thread that serves the Forward button
Callers == Threads \cup {"button"}

VARIABLES
    proc,           \* "up", "down" (not running) or "failed" (startup raised)
    TEST_COUNTER,   \* the module global
    cfg,            \* content of CONFIG_FILE
    tmp,            \* content of CONFIG_FILE + ".tmp"
    pc,             \* pc[t]: position of request thread t
    current,        \* current[t]: local of get_next_test_number
    reg,            \* reg[t]: value loaded by TEST_COUNTER += 1 before its store
    attempt,        \* attempt[t]: loop variable of the retry loop
    config,         \* config[t]: local dict of get_next_test_number
    \* history variables (read by no action guard)
    issued,         \* numbers returned over the life of the config file
    lastRet,        \* last number returned in this process, 0 when none
    loaded,         \* what load_test_counter found in the file at startup
    writes,         \* writes[t]: write attempts begun in the running call
    saved           \* saved[t]: an attempt of the running call has succeeded

VARIABLES
    op,                 \* op[t]: the callback thread t runs ("none" when idle)
    TRAY_SEQUENCE_ROW,  \* the module global: cursor into tray_sequence.txt
    test_num,           \* test_num[t]: local of the callback
    i,                  \* i[t]: loop variable of the sequence
    combo_count,        \* combo_count[t]: argument of the sequence
    results,            \* results[t]: local list of the sequence
    tray,               \* _TRAY_INSTANCE is set and is_connected()
    table,              \* tray_sequence.txt
    \* history variables (read by no action guard)
    draws,              \* draws[t]: numbers drawn in the running repetition
    used,               \* used[t]: numbers the running repetition's triggers
                        \*   and files were named by
    startCounter,       \* startCounter[t]: TEST_COUNTER when the run started
    startRow,           \* startRow[t]: TRAY_SEQUENCE_ROW before the run
    advAttempts,        \* advAttempts[t]: stage advances attempted in the run
    sendFailed          \* sendFailed[t]: a serial send of the run has raised

VARIABLES
    test_r,             \* test_r[t]: answer to the trigger just sent
    fwd_status,         \* outcome of the manual Forward or Reset step just
                        \*   executed, "none" once another callback has run
    \* history variables (read by no action guard)
    applied,            \* indices into lines of the rows whose move was
                        \*   written to the port since the cursor was reset
    wire,               \* commands written to the port since the G91 of the
                        \*   advance in progress, <<>> when none is
    mode,               \* positioning mode of the stage firmware: the last
                        \*   of G90 ("absolute", also at power-on) and G91
                        \*   ("relative") that was written to the port
    row_read,           \* row_read[c]: the row whose deltas caller c parsed
                        \*   in the Forward step it executes, 0 when in none
    fwd_pc,             \* position of the request thread that executes the
                        \*   manual Forward step: "idle", "g91", "g0", "g90",
                        \*   "row_inc"
    abortedAt,          \* abortedAt[t]: Len(results[t]) when Abort ran during
                        \*   the run of thread t, -1 when it did not
    abort_report        \* the last Abort: what the abort paths would answer,
                        \*   the posts it made, the message it returned

VARIABLES
    stage_pos,          \* SerialStage: the tracked position [x, y, z]
    stage_out,          \* SerialStage: the last move command written to the
                        \*   port, NoCmd when none was
    stage_instance,     \* _stage_instance of 550_app_v4.py: "None" or "set"
    stage_leaked,       \* 550_app_v4.py: serial handles that are open and
                        \*   that no object refers to any more
    \* history variables (read by no action guard)
    stage_call,         \* SerialStage: the last call: its name, the tracked
                        \*   position before it, whether it raised
    stage_ready         \* what the last stage_connect found the port doing
                        \*   and whether it reported the stage connected

VARIABLES
    leaked,             \* dashboard: serial handles that are open and that
                        \*   no TrayConnection refers to any more
    tray_out,           \* the last G0 written by TrayConnection.goto
    conn_data,          \* what the last connect_all returned
    \* history variable (read by no action guard)
    tc_call             \* the last call of a TrayConnection method: its
                        \*   name, what the port did, what it raised, whether
                        \*   it wrote to the port, what it returned

VARIABLES
    ports,              \* find_tray_port: what comports() lists, in its order
    tray_usb_serial,    \* find_tray_port: the configured serial number
    tray_port           \* the result: 0 for None, else the position in
                        \*   ports of the device returned; -1 before the call

VARIABLES
    base_url,           \* X550Connection.base_url of _X550_INSTANCE, NoUrl
                        \*   when there is none or it is None
    api_root,           \* X550Connection.api_root, "None" when not set
    sent_url,           \* the URL of the last request of a callback that
                        \*   uses the analyzer, NoRequest before the first
    \* history variables (read by no action guard)
    probes,             \* the requests the last discovery sent, in order
    x550_call           \* the last discovery: its arguments, where the
                        \*   analyzer answered, what it returned

VARIABLES
    FIRST_CUP,          \* the module globals FIRST_CUP_X, FIRST_CUP_Y
    LAST_CUP,           \* the module globals LAST_CUP_X, LAST_CUP_Y
    cfg_before          \* CONFIG_FILE as it was when the single test or the
                        \*   photo that is running called
                        \*   get_next_test_number (history)

cupVars == <<FIRST_CUP, LAST_CUP>>
VARIABLES
    m114,               \* get_position: the response _read_response returned
    position            \* get_position: what the call returned or raised,
                        \*   NoPosition before the call

parser == <<m114, position>>
VARIABLES
    acq,                \* 550 app: store-acq, the acquisition parameters that
                        \*   load_beams fetched, NoConfig before
    put                 \* 550 app: the parameters apply_beams PUT back,
                        \*   NoConfig before

beamVars == <<acq, put>>
locator == <<ports, tray_usb_serial, tray_port>>
x550Obj == <<base_url, api_root, probes, x550_call, sent_url>>
stageObj == <<stage_pos, stage_out, stage_call>>
stageConn == <<stage_instance, stage_leaked, stage_ready>>
trayObj == <<leaked, tray_out, tc_call, conn_data>>
devVars == <<stageObj, stageConn, trayObj, locator, x550Obj, cupVars, cfg_before,
            parser, beamVars>>

seqLocals == <<i, combo_count, results, startCounter, startRow, advAttempts,
               sendFailed>>
stageVars == <<tray, table>>
obsVars == <<test_r, fwd_status, applied, wire, mode, row_read, fwd_pc,
            abortedAt, abort_report>>
seqVars == <<op, TRAY_SEQUENCE_ROW, test_num, draws, used, seqLocals, stageVars,
             obsVars>>

counterVars_but_pc == <<proc, TEST_COUNTER, cfg, tmp, current, reg, attempt,
                        config, issued, lastRet, loaded, writes, saved>>

counterVars == <<proc, TEST_COUNTER, cfg, tmp, pc, current, reg, attempt, config,
                 issued, lastRet, loaded, writes, saved>>

\* ------------------------------------------------------------ file values
\* A file is absent, not valid JSON ("garbage"), valid JSON that is not an
\* object ("nonobject"), or a JSON object with or without key test_counter.
\* the key folder_path is not in the file
NoFolder == "none"

\* cup: the keys first_cup_x, first_cup_y (and the last_cup keys computed
\* from them); folder: the key folder_path
Absent    == [kind |-> "absent",    has_tc |-> FALSE, tc |-> 0,
              cup |-> NoCup, folder |-> NoFolder]
Garbage   == [Absent EXCEPT !.kind = "garbage"]
NonObject == [Absent EXCEPT !.kind = "nonobject"]
EmptyDict == [Absent EXCEPT !.kind = "object"]
Obj(n)    == [EmptyDict EXCEPT !.has_tc = TRUE, !.tc = n]

NotLoaded == [has_tc |-> FALSE, tc |-> 0]

\* no Abort has run yet
NoAbort == [posts |-> 0, message |-> "none", answers |-> <<>>]

\* tray_sequence.txt as readlines() sees it: a header line, then data rows.
\* "move" is a row of two numbers, not both zero.
TableOf(k) == [exists |-> TRUE,
               lines |-> <<"header">> \o [n \in 1..k |-> "move"]]
NoTable == [exists |-> FALSE, lines |-> <<>>]
Tables == {NoTable} \cup {TableOf(k) : k \in 0..MaxRows}

SeqKinds == {"seq1", "seq2", "seq3"}

\* --------------------------------------------------------- pure functions
\* (variant: the stored value taken as the last number issued)
load_test_counter_last_issued(prev, file, ioerr) ==
    IF file.kind = "object" /\ file.has_tc /\ ~ioerr
    THEN [raised |-> FALSE, counter |-> file.tc + 1]
    ELSE [raised |-> FALSE, counter |-> prev]

\* load_test_counter: the value TEST_COUNTER has afterwards, or the uncaught
\* exception.  prev is TEST_COUNTER before the call, ioerr an IOError of open.
load_test_counter(prev, file, ioerr) ==
    IF file.kind = "absent" THEN [raised |-> FALSE, counter |-> prev]
    ELSE IF ioerr \/ file.kind = "garbage"
        THEN [raised |-> FALSE, counter |-> DEFAULT_TEST_COUNTER]
    ELSE IF file.kind = "nonobject"
        \* config.get on a list/number/string: AttributeError, not caught
        THEN [raised |-> TRUE, counter |-> prev]
    ELSE [raised |-> FALSE,
          counter |-> IF file.has_tc THEN file.tc ELSE DEFAULT_TEST_COUNTER]

\* load_cup_coordinates: the cup globals afterwards, or the uncaught
\* exception.  keys are the first-cup keys of the file, ioerr an IOError.
load_cup_coordinates(first, last, file, keys, ioerr) ==
    IF file.kind = "absent" \/ ioerr \/ file.kind = "garbage"
    THEN [raised |-> FALSE, first |-> first, last |-> last]
    ELSE IF file.kind = "nonobject"
        \* config.get on a list/number/string: AttributeError, not caught
        THEN [raised |-> TRUE, first |-> first, last |-> last]
    ELSE LET f == IF keys.has THEN [x |-> keys.x, y |-> keys.y] ELSE first
         IN  [raised |-> FALSE, first |-> f,
              last |-> last_cup_of(f)]

\* lines 93-100: the dict get_next_test_number starts from
read_config(file, ioerr) ==
    IF file.kind = "absent" \/ file.kind = "garbage" \/ ioerr THEN EmptyDict
    ELSE file

\* (variant: the retry test off by one)
retry_again_off_by_one(a) == a < max_retries

\* line 116: is there another attempt after attempt a failed
retry_again(a) == a < max_retries - 1


\* ------------------------------------------------------------------ Init
\* the module globals, the files and the request threads after the start of
\* the program on a machine that has no config file yet
InitCore ==
    /\ proc = "up"
    /\ TEST_COUNTER = DEFAULT_TEST_COUNTER
    /\ cfg = Absent
    /\ tmp = Absent
    /\ pc = [t \in Threads |-> "idle"]
    /\ current = [t \in Threads |-> 0]
    /\ reg = [t \in Threads |-> 0]
    /\ attempt = [t \in Threads |-> 0]
    /\ config = [t \in Threads |-> EmptyDict]
    /\ issued = {}
    /\ lastRet = 0
    /\ loaded = NotLoaded
    /\ writes = [t \in Threads |-> 0]
    /\ saved = [t \in Threads |-> FALSE]
    /\ op = [t \in Threads |-> "none"]
    /\ TRAY_SEQUENCE_ROW = FIRST_ROW
    /\ test_num = [t \in Threads |-> 0]
    /\ i = [t \in Threads |-> 0]
    /\ combo_count = [t \in Threads |-> 0]
    /\ results = [t \in Threads |-> <<>>]
    /\ draws = [t \in Threads |-> 0]
    /\ used = [t \in Threads |-> {}]
    /\ startCounter = [t \in Threads |-> 0]
    /\ startRow = [t \in Threads |-> 0]
    /\ advAttempts = [t \in Threads |-> 0]
    /\ sendFailed = [t \in Threads |-> FALSE]
    /\ test_r = [t \in Threads |-> "none"]
    /\ fwd_status = "none"
    /\ applied = <<>>
    /\ wire = <<>>
    /\ mode = "absolute"
    /\ row_read = [c \in Callers |-> 0]
    /\ fwd_pc = "idle"
    /\ abortedAt = [t \in Threads |-> -1]
    /\ abort_report = NoAbort

\* SerialStage.__init__: x = y = z = 0, nothing written but M115
NoCmd == [axis |-> "none", coord |-> 0]
NoCall == [op |-> "none", before |-> [x |-> 0, y |-> 0, z |-> 0],
           raised |-> FALSE]

SerialStageInit ==
    /\ stage_pos = [x |-> 0, y |-> 0, z |-> 0]
    /\ stage_out = NoCmd
    /\ stage_call = NoCall

\* _stage_instance = None at module level
NotReady == [port |-> "n/a", ok |-> FALSE]

StageConnInit ==
    /\ stage_leaked = 0
    /\ stage_ready = NotReady

\* a TrayConnection that no method was called on
NoTrayCmd == [x |-> 0, y |-> 0, z |-> 0]
NoTrayCall == [op |-> "none", port |-> "n/a", raised |-> "none",
               wrote |-> FALSE, ret |-> "None"]

\* store-connection before the first Connect
NoConnData == [tray_connected |-> FALSE, ready |-> FALSE, tray_port |-> 0,
               error |-> [message |-> "None", devices |-> <<>>]]

TrayObjInit ==
    /\ leaked = 0
    /\ tray_out = NoTrayCmd
    /\ tc_call = NoTrayCall
    /\ conn_data = NoConnData

\* no device listed, no serial number configured, find_tray_port not called
LocatorInit ==
    /\ ports = <<>>
    /\ tray_usb_serial = "None"
    /\ tray_port = -1

\* _X550_INSTANCE = None at module level; base_url = None in __init__
NoUrl == [host |-> "none", port |-> 0]
NoService == [host |-> "none", port |-> 0, path |-> 0, other |-> "none"]
NoX550Call == [op |-> "none", host |-> "none", port_start |-> 0,
               port_end |-> 0, port_override |-> 0, env |-> NoService,
               ret |-> FALSE]

NoRequest == [host |-> "none", port |-> 0, path |-> "none"]

X550Init ==
    /\ sent_url = NoRequest
    /\ base_url = NoUrl
    /\ api_root = "None"
    /\ probes = <<>>
    /\ x550_call = NoX550Call

CupInit ==
    /\ FIRST_CUP = DEFAULT_FIRST_CUP
    /\ LAST_CUP = DEFAULT_LAST_CUP
    /\ cfg_before = Absent

\* get_position not called
NoPosition == [raised |-> "not called", x |-> 0, y |-> 0, z |-> 0,
               message |-> <<>>]

ParserInit ==
    /\ m114 = <<>>
    /\ position = NoPosition
    /\ acq = NoConfig
    /\ put = NoConfig

DevInit ==
    /\ ParserInit
    /\ SerialStageInit
    /\ stage_instance = "None"
    /\ StageConnInit
    /\ TrayObjInit
    /\ LocatorInit
    /\ X550Init
    /\ CupInit

InitCommon ==
    /\ InitCore
    /\ DevInit

\* _TRAY_INSTANCE = None at module level; no tray_sequence.txt yet
Init ==
    /\ InitCommon
    /\ tray = FALSE
    /\ table = NoTable

\* the same, once Connect has connected the tray and the operator has put a
\* tray_sequence.txt of MaxRows data rows next to the program
ReadyInit ==
    /\ InitCommon
    /\ tray = TRUE
    /\ table = TableOf(MaxRows)

vars == <<counterVars, seqVars, devVars>>

\* ------------------------------------------------- get_next_test_number
\* The function is entered by thread t (the call at the head of a callback).
Enter(t) ==
    /\ pc' = [pc EXCEPT ![t] = "gn_83"]
    /\ writes' = [writes EXCEPT ![t] = 0]
    /\ saved' = [saved EXCEPT ![t] = FALSE]

\* line 83: current = TEST_COUNTER
gn_read_current(t) ==
    /\ proc = "up" /\ pc[t] = "gn_83"
    /\ current' = [current EXCEPT ![t] = TEST_COUNTER]
    /\ pc' = [pc EXCEPT ![t] = "gn_84a"]
    /\ UNCHANGED <<proc, TEST_COUNTER, cfg, tmp, reg, attempt, config, issued,
                   lastRet, loaded, writes, saved, seqVars>>
    /\ UNCHANGED devVars

\* line 84, first half: TEST_COUNTER += 1 loads the global ...
gn_load_counter(t) ==
    /\ proc = "up" /\ pc[t] = "gn_84a"
    /\ reg' = [reg EXCEPT ![t] = TEST_COUNTER]
    /\ pc' = [pc EXCEPT ![t] = "gn_84b"]
    /\ UNCHANGED <<proc, TEST_COUNTER, cfg, tmp, current, attempt, config, issued,
                   lastRet, loaded, writes, saved, seqVars>>
    /\ UNCHANGED devVars

\* (variant: the increment is undone when it is stored)
gn_store_counter_no_increment(t) ==
    /\ proc = "up" /\ pc[t] = "gn_84b"
    /\ TEST_COUNTER' = reg[t]
    /\ reg' = [reg EXCEPT ![t] = 0]
    /\ attempt' = [attempt EXCEPT ![t] = 0]
    /\ writes' = [writes EXCEPT ![t] = 1]
    /\ pc' = [pc EXCEPT ![t] = "gn_read"]
    /\ UNCHANGED <<proc, cfg, tmp, current, config, issued, lastRet,
                   loaded, saved, seqVars>>
    /\ UNCHANGED devVars

\* line 84, second half: ... and stores the sum; line 91 starts the loop
gn_store_counter(t) ==
    /\ proc = "up" /\ pc[t] = "gn_84b"
    /\ TEST_COUNTER' = reg[t] + 1
    /\ reg' = [reg EXCEPT ![t] = 0]
    /\ attempt' = [attempt EXCEPT ![t] = 0]
    /\ writes' = [writes EXCEPT ![t] = 1]
    /\ pc' = [pc EXCEPT ![t] = "gn_read"]
    /\ UNCHANGED <<proc, cfg, tmp, current, config, issued, lastRet, loaded, saved, seqVars>>
    /\ UNCHANGED devVars

\* lines 115-122: the except branch of attempt[t]: retry, or log and give up
attempt_failed(t) ==
    IF retry_again(attempt[t])
    THEN /\ attempt' = [attempt EXCEPT ![t] = attempt[t] + 1]
         /\ writes' = [writes EXCEPT ![t] = writes[t] + 1]
         /\ pc' = [pc EXCEPT ![t] = "gn_read"]
    ELSE /\ pc' = [pc EXCEPT ![t] = "gn_ret"]
         /\ UNCHANGED <<attempt, writes>>

\* lines 93-100: config = {} or the parsed file
gn_read_config(t) ==
    /\ proc = "up" /\ pc[t] = "gn_read"
    /\ \E ioerr \in BOOLEAN :
          config' = [config EXCEPT ![t] = read_config(cfg, ioerr)]
    /\ pc' = [pc EXCEPT ![t] = "gn_tmp"]
    /\ UNCHANGED <<proc, TEST_COUNTER, cfg, tmp, current, reg, attempt, issued,
                   lastRet, loaded, writes, saved, seqVars>>
    /\ UNCHANGED devVars

\* lines 102-107: config['test_counter'] = TEST_COUNTER and the dump to the
\* temp file.  A non-dict config raises TypeError; open or write may raise
\* and leave the temp file untouched or partly written.
gn_write_tmp(t) ==
    /\ proc = "up" /\ pc[t] = "gn_tmp"
    /\ \/ /\ config[t].kind = "object"
          /\ tmp' = [config[t] EXCEPT !.has_tc = TRUE, !.tc = TEST_COUNTER]
          /\ pc' = [pc EXCEPT ![t] = "gn_remove"]
          /\ UNCHANGED <<attempt, writes>>
       \/ /\ config[t].kind = "object"
          /\ tmp' \in {tmp, Garbage}
          /\ attempt_failed(t)
       \/ /\ config[t].kind # "object"
          /\ tmp' = tmp
          /\ attempt_failed(t)
    /\ config' = [config EXCEPT ![t] = EmptyDict]
    /\ UNCHANGED <<proc, TEST_COUNTER, cfg, current, reg, issued, lastRet,
                   loaded, saved, seqVars>>
    /\ UNCHANGED devVars

\* lines 110-111: if os.path.exists(CONFIG_FILE): os.remove(CONFIG_FILE)
gn_remove_old(t) ==
    /\ proc = "up" /\ pc[t] = "gn_remove"
    /\ \/ /\ cfg' = Absent
          /\ pc' = [pc EXCEPT ![t] = "gn_move"]
          /\ UNCHANGED <<attempt, writes>>
       \/ /\ cfg.kind # "absent"
          /\ cfg' = cfg
          /\ attempt_failed(t)
    /\ UNCHANGED <<proc, TEST_COUNTER, tmp, current, reg, config, issued, lastRet,
                   loaded, saved, seqVars>>
    /\ UNCHANGED devVars

\* line 113: shutil.move(temp_file, CONFIG_FILE)
gn_move_tmp(t) ==
    /\ proc = "up" /\ pc[t] = "gn_move"
    /\ \/ /\ tmp.kind # "absent"
          /\ cfg' = tmp
          /\ tmp' = Absent
          /\ saved' = [saved EXCEPT ![t] = TRUE]
          /\ pc' = [pc EXCEPT ![t] = "gn_ret"]
          /\ UNCHANGED <<attempt, writes>>
       \/ /\ UNCHANGED <<cfg, tmp, saved>>
          /\ attempt_failed(t)
    /\ UNCHANGED <<proc, TEST_COUNTER, current, reg, config, issued, lastRet,
                   loaded, seqVars>>
    /\ UNCHANGED devVars

\* line 124: return current, back in the calling callback
gn_return(t) ==
    /\ proc = "up" /\ pc[t] = "gn_ret"
    /\ issued' = issued \cup {current[t]}
    /\ lastRet' = current[t]
    /\ test_num' = [test_num EXCEPT ![t] = current[t]]
    /\ draws' = [draws EXCEPT ![t] = draws[t] + 1]
    /\ current' = [current EXCEPT ![t] = 0]
    /\ attempt' = [attempt EXCEPT ![t] = 0]
    /\ pc' = [pc EXCEPT ![t] = "triggers"]
    /\ UNCHANGED <<proc, TEST_COUNTER, cfg, tmp, reg, config, loaded,
                   writes, saved, op, TRAY_SEQUENCE_ROW, used, seqLocals,
                   stageVars,
                   obsVars>>
    /\ UNCHANGED devVars

get_next_test_number(t) ==
    \/ gn_read_current(t)
    \/ gn_load_counter(t)
    \/ gn_store_counter(t)
    \/ gn_read_config(t)
    \/ gn_write_tmp(t)
    \/ gn_remove_old(t)
    \/ gn_move_tmp(t)
    \/ gn_return(t)

\* ------------------------------------------------------------- callbacks
\* x550_quick_combo_test_2 up to its call of get_next_test_number (the
\* analyzer is connected: the early returns draw no number)
x550_quick_combo_test_2(t) ==
    /\ proc = "up" /\ pc[t] = "idle"
    /\ TEST_COUNTER <= MaxCounter
    /\ op' = [op EXCEPT ![t] = "quick"]
    /\ Enter(t)
    /\ UNCHANGED <<proc, TEST_COUNTER, cfg, tmp, current, reg, attempt, config,
                   issued, lastRet, loaded, TRAY_SEQUENCE_ROW, test_num, draws,
                   used, seqLocals, stageVars,
                   obsVars>>
    /\ UNCHANGED devVars

\* the rest of x550_quick_combo_test_2: both triggers and the result files,
\* all named by test_num; no global of the model is written
quick_combo_finish(t) ==
    /\ proc = "up" /\ pc[t] = "triggers" /\ op[t] = "quick"
    /\ pc' = [pc EXCEPT ![t] = "idle"]
    /\ op' = [op EXCEPT ![t] = "none"]
    /\ test_num' = [test_num EXCEPT ![t] = 0]
    /\ draws' = [draws EXCEPT ![t] = 0]
    /\ UNCHANGED <<proc, TEST_COUNTER, cfg, tmp, current, reg, attempt, config,
                   issued, lastRet, loaded, writes, saved,
                   TRAY_SEQUENCE_ROW, used, seqLocals, stageVars,
                   obsVars>>
    /\ UNCHANGED devVars

\* ------------------------------------------------------ combo sequences
\* What the analyzer answers to POST /api/v2/test/final, and how the handling
\* of a 2xx answer ends: "ok" is a 2xx answer processed without exception,
\* "ok_then_error" a 2xx answer whose json() or result-file write raised.
Responses == {"ok", "ok_then_error", "non2xx", "timeout", "exception"}

\* (variant: every 2xx answer is marked OK, processed or not)
outcome_of_status_only(k, resp) ==
    IF resp \in {"ok", "ok_then_error"} THEN "OK" ELSE "failed"

\* the entry appended to results for a trigger of sequence kind k: "OK" for
\* a 2xx answer processed without exception; "failed" stands for the texts
\* "failed", "failed (status)", "timeout" and "error", which the program
\* only joins into the message it returns and never branches on
outcome(k, resp) ==
    IF resp = "ok" THEN "OK" ELSE "failed"

\* start_x550_combo_sequence, _2 and _3 up to the loop: the early returns
\* and the initialisation of the locals.  connected: x550_data says the
\* analyzer is connected and gives a base URL.
start_sequence(t, k, connected, count) ==
    /\ proc = "up" /\ pc[t] = "idle"
    /\ TEST_COUNTER + count <= MaxCounter + 1
    /\ TRAY_SEQUENCE_ROW' = IF k = "seq3" THEN FIRST_ROW ELSE TRAY_SEQUENCE_ROW
    /\ applied' = IF k = "seq3" THEN <<>> ELSE applied
    /\ fwd_status' = "none"
    /\ IF connected /\ count >= 1
       THEN /\ op' = [op EXCEPT ![t] = k]
            /\ test_r' = [test_r EXCEPT ![t] = "none"]
            /\ abortedAt' = [abortedAt EXCEPT ![t] = -1]
            /\ pc' = [pc EXCEPT ![t] = "loop"]
            /\ i' = [i EXCEPT ![t] = 0]
            /\ combo_count' = [combo_count EXCEPT ![t] = count]
            /\ results' = [results EXCEPT ![t] = <<>>]
            /\ startCounter' = [startCounter EXCEPT ![t] = TEST_COUNTER]
            /\ startRow' = [startRow EXCEPT ![t] = TRAY_SEQUENCE_ROW']
            /\ advAttempts' = [advAttempts EXCEPT ![t] = 0]
            /\ sendFailed' = [sendFailed EXCEPT ![t] = FALSE]
            /\ draws' = [draws EXCEPT ![t] = 0]
            /\ used' = [used EXCEPT ![t] = {}]
       ELSE UNCHANGED <<op, pc, draws, used, seqLocals, test_r, abortedAt>>
    /\ UNCHANGED <<proc, TEST_COUNTER, cfg, tmp, current, reg, attempt, config,
                   issued, lastRet, loaded, writes, saved, test_num, stageVars,
                   wire, mode, row_read, fwd_pc, abort_report>>
    /\ UNCHANGED devVars

\* (variant: a number is drawn for the first repetition only)
seq_loop_draw_once(t) ==
    /\ proc = "up" /\ pc[t] = "loop"
    /\ IF i[t] < combo_count[t]
       THEN IF i[t] = 0
            THEN Enter(t)
            ELSE /\ pc' = [pc EXCEPT ![t] = "triggers"]
                 /\ UNCHANGED <<writes, saved>>
       ELSE /\ pc' = [pc EXCEPT ![t] = "seq_done"]
            /\ UNCHANGED <<writes, saved>>
    /\ UNCHANGED <<proc, TEST_COUNTER, cfg, tmp, current, reg, attempt, config,
                   issued, lastRet, loaded, seqVars>>
    /\ UNCHANGED devVars

\* for i in range(combo_count): test_num = get_next_test_number(), or the
\* end of the loop
seq_loop(t) ==
    /\ proc = "up" /\ pc[t] = "loop"
    /\ IF i[t] < combo_count[t]
       THEN Enter(t)
       ELSE /\ pc' = [pc EXCEPT ![t] = "seq_done"]
            /\ UNCHANGED <<writes, saved>>
    /\ UNCHANGED <<proc, TEST_COUNTER, cfg, tmp, current, reg, attempt, config,
                   issued, lastRet, loaded, seqVars>>
    /\ UNCHANGED devVars

\* the repetition is over: the loop variable moves on
next_repetition(t) ==
    /\ i' = [i EXCEPT ![t] = i[t] + 1]
    /\ draws' = [draws EXCEPT ![t] = 0]
    /\ used' = [used EXCEPT ![t] = {}]

\* (variant: a failed Mining trigger ends the repetition)
seq_mining_fail_ends_rep(t) ==
    /\ proc = "up" /\ pc[t] = "triggers" /\ op[t] \in SeqKinds
    /\ \E resp \in Responses :
         /\ test_r' = [test_r EXCEPT ![t] = resp]
         /\ results' = [results EXCEPT
                          ![t] = Append(results[t], outcome(op[t], resp))]
         /\ IF resp = "ok"
            THEN /\ pc' = [pc EXCEPT ![t] = "soil"]
                 /\ used' = [used EXCEPT ![t] = used[t] \cup {test_num[t]}]
                 /\ UNCHANGED <<i, draws>>
            ELSE /\ pc' = [pc EXCEPT ![t] = "loop"]
                 /\ next_repetition(t)
    /\ UNCHANGED <<counterVars_but_pc, op, TRAY_SEQUENCE_ROW, test_num,
                   combo_count, startCounter, startRow, advAttempts,
                   sendFailed, stageVars, fwd_status, applied, wire,
                   mode, row_read, fwd_pc,
                   abortedAt, abort_report>>
    /\ UNCHANGED devVars

\* the Mining trigger of a repetition and what is done with its answer
seq_mining(t) ==
    /\ proc = "up" /\ pc[t] = "triggers" /\ op[t] \in SeqKinds
    /\ \E resp \in Responses :
         /\ test_r' = [test_r EXCEPT ![t] = resp]
         /\ results' = [results EXCEPT
                          ![t] = Append(results[t], outcome(op[t], resp))]
    /\ used' = [used EXCEPT ![t] = used[t] \cup {test_num[t]}]
    /\ pc' = [pc EXCEPT ![t] = "soil"]
    /\ UNCHANGED <<counterVars_but_pc, op, TRAY_SEQUENCE_ROW, test_num, draws,
                   i, combo_count, startCounter, startRow, advAttempts,
                   sendFailed, stageVars, fwd_status, applied, wire,
                   mode, row_read, fwd_pc,
                   abortedAt, abort_report>>
    /\ UNCHANGED devVars

\* (variant: a failure of the Soil trigger or of its result files is not
\* caught and ends the callback)
seq_soil_failure_propagates(t) ==
    /\ proc = "up" /\ pc[t] = "soil"
    /\ \E resp \in Responses :
         /\ test_r' = [test_r EXCEPT ![t] = resp]
         /\ results' = [results EXCEPT
                          ![t] = Append(results[t], outcome(op[t], resp))]
         /\ pc' = [pc EXCEPT ![t] = IF resp = "ok" THEN "advance"
                                                   ELSE "seq_done"]
    /\ used' = [used EXCEPT ![t] = used[t] \cup {test_num[t]}]
    /\ UNCHANGED <<counterVars_but_pc, op, TRAY_SEQUENCE_ROW, test_num, draws,
                   i, combo_count, startCounter, startRow, advAttempts,
                   sendFailed, stageVars, fwd_status, applied, wire,
                   mode, row_read, fwd_pc,
                   abortedAt, abort_report>>
    /\ UNCHANGED devVars

\* the Soil trigger, its result files, the screenshot (and, in sequence 3,
\* the chemistry file), all named by test_num
seq_soil(t) ==
    /\ proc = "up" /\ pc[t] = "soil"
    /\ \E resp \in Responses :
         /\ test_r' = [test_r EXCEPT ![t] = resp]
         /\ results' = [results EXCEPT
                          ![t] = Append(results[t], outcome(op[t], resp))]
    /\ used' = [used EXCEPT ![t] = used[t] \cup {test_num[t]}]
    /\ pc' = [pc EXCEPT ![t] = "advance"]
    /\ UNCHANGED <<counterVars_but_pc, op, TRAY_SEQUENCE_ROW, test_num, draws,
                   i, combo_count, startCounter, startRow, advAttempts,
                   sendFailed, stageVars, fwd_status, applied, wire,
                   mode, row_read, fwd_pc,
                   abortedAt, abort_report>>
    /\ UNCHANGED devVars

\* can the row under the cursor be applied: the file exists, the cursor is
\* inside it and the row parses as two numbers
row_ready(tb, row) ==
    /\ tb.exists
    /\ row < Len(tb.lines)
    /\ tb.lines[row + 1] = "move"

\* (variant: an advance after the last repetition too)
advance_due_every_repetition(k, n, count) == k # "seq1" /\ n < count

\* does this repetition attempt a stage advance: if i < combo_count - 1
advance_due(k, n, count) == k # "seq1" /\ n < count - 1

\* after the triggers: sequence 1 goes on with the next repetition; sequences
\* 2 and 3 execute Forward unless this was the last repetition, up to the
\* parsing of the row under the cursor
seq_advance(t) ==
    /\ proc = "up" /\ pc[t] = "advance"
    /\ test_r' = [test_r EXCEPT ![t] = "none"]
    /\ IF advance_due(op[t], i[t], combo_count[t])
       THEN /\ advAttempts' = [advAttempts EXCEPT ![t] = advAttempts[t] + 1]
            /\ IF tray /\ row_ready(table, TRAY_SEQUENCE_ROW)
               THEN /\ pc' = [pc EXCEPT ![t] = "g91"]
                    /\ row_read' = [row_read EXCEPT ![t] = TRAY_SEQUENCE_ROW]
                    /\ UNCHANGED <<i, draws, used>>
               ELSE /\ pc' = [pc EXCEPT ![t] = "loop"]
                    /\ next_repetition(t)
                    /\ UNCHANGED row_read
       ELSE /\ pc' = [pc EXCEPT ![t] = "loop"]
            /\ next_repetition(t)
            /\ UNCHANGED <<advAttempts, row_read>>
    /\ UNCHANGED <<counterVars_but_pc, op, TRAY_SEQUENCE_ROW, test_num,
                   combo_count, results, startCounter, startRow, sendFailed,
                   stageVars, fwd_status, applied, wire, mode, fwd_pc, abortedAt,
                   abort_report>>
    /\ UNCHANGED devVars

\* what a written command does to the positioning mode of the firmware:
\* G91 selects relative moves, G90 absolute ones, a G0 none
mode_after(m, cmd) ==
    CASE cmd \in {"g91", "G91"} -> "relative"
      [] cmd \in {"g90", "G90"} -> "absolute"
      [] OTHER -> m

\* (variant: an advance whose send raises still moves the cursor on)
seq_send_failed_move_counts(t) ==
    /\ proc = "up" /\ pc[t] \in {"g91", "g0", "g90"}
    /\ \/ /\ pc' = [pc EXCEPT ![t] = CASE pc[t] = "g91" -> "g0"
                                        [] pc[t] = "g0" -> "g90"
                                        [] pc[t] = "g90" -> "row_inc"]
          /\ wire' = CASE pc[t] = "g91" -> <<"G91">>
                       [] pc[t] = "g0" -> Append(wire, "G0")
                       [] pc[t] = "g90" -> <<>>
          /\ mode' = mode_after(mode, pc[t])
          /\ applied' = IF pc[t] = "g0"
                          THEN Append(applied, row_read[t])
                          ELSE applied
          /\ UNCHANGED <<sendFailed, i, draws, used, TRAY_SEQUENCE_ROW,
                       row_read>>
       \/ /\ sendFailed' = [sendFailed EXCEPT ![t] = TRUE]
          /\ pc' = [pc EXCEPT ![t] = "loop"]
          /\ wire' = <<>>
          /\ TRAY_SEQUENCE_ROW' = TRAY_SEQUENCE_ROW + 1
          /\ next_repetition(t)
          /\ row_read' = [row_read EXCEPT ![t] = 0]
          /\ UNCHANGED <<applied, mode>>
    /\ UNCHANGED <<counterVars_but_pc, op, test_num,
                   combo_count, results, startCounter, startRow, advAttempts,
                   stageVars, test_r, fwd_status, fwd_pc, abortedAt,
                   abort_report>>
    /\ UNCHANGED devVars

\* _TRAY_INSTANCE._send of one command of the advance: it is written, or
\* the send raises and the except branch of the Forward block ends the
\* advance.  G91, the G0 move and G90 are sent in this order.
seq_send(t) ==
    /\ proc = "up" /\ pc[t] \in {"g91", "g0", "g90"}
    /\ \/ /\ pc' = [pc EXCEPT ![t] = CASE pc[t] = "g91" -> "g0"
                                        [] pc[t] = "g0" -> "g90"
                                        [] pc[t] = "g90" -> "row_inc"]
          /\ wire' = CASE pc[t] = "g91" -> <<"G91">>
                       [] pc[t] = "g0" -> Append(wire, "G0")
                       [] pc[t] = "g90" -> <<>>
          /\ mode' = mode_after(mode, pc[t])
          /\ applied' = IF pc[t] = "g0"
                          THEN Append(applied, row_read[t])
                          ELSE applied
          /\ UNCHANGED <<sendFailed, i, draws, used, row_read>>
       \/ /\ sendFailed' = [sendFailed EXCEPT ![t] = TRUE]
          /\ pc' = [pc EXCEPT ![t] = "loop"]
          /\ wire' = <<>>
          /\ next_repetition(t)
          /\ row_read' = [row_read EXCEPT ![t] = 0]
          /\ UNCHANGED <<applied, mode>>
    /\ UNCHANGED <<counterVars_but_pc, op, TRAY_SEQUENCE_ROW, test_num,
                   combo_count, results, startCounter, startRow, advAttempts,
                   stageVars, test_r, fwd_status, fwd_pc, abortedAt,
                   abort_report>>
    /\ UNCHANGED devVars

\* TRAY_SEQUENCE_ROW += 1 after the three sends
seq_row_inc(t) ==
    /\ proc = "up" /\ pc[t] = "row_inc"
    /\ TRAY_SEQUENCE_ROW' = TRAY_SEQUENCE_ROW + 1
    /\ pc' = [pc EXCEPT ![t] = "loop"]
    /\ next_repetition(t)
    /\ row_read' = [row_read EXCEPT ![t] = 0]
    /\ UNCHANGED <<counterVars_but_pc, op, test_num, combo_count, results,
                   startCounter, startRow, advAttempts, sendFailed, stageVars,
                   test_r, fwd_status, applied, wire, mode, fwd_pc, abortedAt,
                   abort_report>>
    /\ UNCHANGED devVars

\* return of the sequence callback
seq_return(t) ==
    /\ proc = "up" /\ pc[t] = "seq_done"
    /\ pc' = [pc EXCEPT ![t] = "idle"]
    /\ op' = [op EXCEPT ![t] = "none"]
    /\ test_num' = [test_num EXCEPT ![t] = 0]
    /\ i' = [i EXCEPT ![t] = 0]
    /\ combo_count' = [combo_count EXCEPT ![t] = 0]
    /\ results' = [results EXCEPT ![t] = <<>>]
    /\ startCounter' = [startCounter EXCEPT ![t] = 0]
    /\ startRow' = [startRow EXCEPT ![t] = 0]
    /\ advAttempts' = [advAttempts EXCEPT ![t] = 0]
    /\ sendFailed' = [sendFailed EXCEPT ![t] = FALSE]
    /\ test_r' = [test_r EXCEPT ![t] = "none"]
    /\ abortedAt' = [abortedAt EXCEPT ![t] = -1]
    /\ UNCHANGED <<counterVars_but_pc, TRAY_SEQUENCE_ROW, draws, used,
                   stageVars, fwd_status, applied, wire,
                   mode, row_read, fwd_pc, abort_report>>
    /\ UNCHANGED devVars

\* ---------------------------------------------------------------- Abort
\* what requests.post answers to one abort request
AbortAnswers == {"ok", "non2xx", "exception"}

\* (variant: every abort path is posted to, whatever the first one answers)
abort_posts_all_paths(answers) == Len(answers)

\* the loop over abort_urls: the number of requests posted, given the answer
\* each path would give; break at the first r.ok
abort_posts(answers) ==
    IF \E n \in 1..Len(answers) : answers[n] = "ok"
    THEN CHOOSE n \in 1..Len(answers) :
            /\ answers[n] = "ok"
            /\ \A m \in 1..(n - 1) : answers[m] # "ok"
    ELSE Len(answers)

\* abort_x550_combo_sequence as a whole, run by a request thread of its own.
\* connected: x550_data says the analyzer is connected and gives a base URL;
\* answers: what the two abort paths answer.
abort_x550_combo_sequence(connected, answers) ==
    /\ proc = "up"
    /\ abort_report' = IF connected
                        THEN [posts |-> abort_posts(answers),
                              message |-> "aborted", answers |-> answers]
                        ELSE [posts |-> 0, message |-> "error",
                              answers |-> <<>>]
    /\ abortedAt' = [t \in Threads |->
                       IF connected /\ op[t] \in SeqKinds /\ abortedAt[t] = -1
                       THEN Len(results[t]) ELSE abortedAt[t]]
    /\ UNCHANGED <<counterVars, op, TRAY_SEQUENCE_ROW, test_num, draws, used,
                   seqLocals, stageVars, test_r, fwd_status, applied, wire,
                   mode, row_read, fwd_pc>>
    /\ UNCHANGED devVars

\* ------------------------------------------------------------ the stage
\* on_connect / connect_all: the tray gets connected, or the attempt fails
on_connect ==
    /\ proc = "up"
    /\ \A t \in Threads : pc[t] = "idle"
    /\ ~tray
    /\ tray' \in BOOLEAN
    /\ UNCHANGED <<counterVars, op, TRAY_SEQUENCE_ROW, test_num, draws, used,
                   seqLocals, table,
                   obsVars>>
    /\ UNCHANGED devVars

\* tray_checks, btn-forward-sequence: the manual Forward step as a whole
btn_forward_sequence ==
    /\ proc = "up"
    /\ \A t \in Threads : pc[t] = "idle"
    /\ tray
    /\ IF row_ready(table, TRAY_SEQUENCE_ROW)
       THEN \E raises \in {"none", "G91", "G0", "G90"} :
              \* the send that raises, if one does (bound: by hand at most
              \* one move is left written without its increment)
              /\ raises = "G90" =>
                    Len(applied) <= TRAY_SEQUENCE_ROW - FIRST_ROW
              /\ fwd_status' = IF raises = "none" THEN "moved" ELSE "raised"
              /\ applied' = IF raises \in {"none", "G90"}
                              THEN Append(applied, TRAY_SEQUENCE_ROW)
                              ELSE applied
              /\ TRAY_SEQUENCE_ROW' = IF raises = "none"
                                        THEN TRAY_SEQUENCE_ROW + 1
                                        ELSE TRAY_SEQUENCE_ROW
              /\ mode' = CASE raises = "none" -> "absolute"
                            [] raises = "G91" -> mode
                            [] OTHER -> "relative"
       ELSE /\ fwd_status' = "skipped"
            /\ UNCHANGED <<applied, TRAY_SEQUENCE_ROW, mode>>
    /\ UNCHANGED <<counterVars, op, test_num, draws, used, seqLocals, stageVars,
                   test_r, wire, row_read, fwd_pc, abortedAt, abort_report>>
    /\ UNCHANGED devVars

\* tray_checks, btn-reset-sequence
btn_reset_sequence ==
    /\ proc = "up"
    /\ \A t \in Threads : pc[t] = "idle"
    /\ tray
    /\ TRAY_SEQUENCE_ROW' = FIRST_ROW
    /\ applied' = <<>>
    /\ fwd_status' = "reset"
    /\ UNCHANGED <<counterVars, op, test_num, draws, used, seqLocals, stageVars,
                   test_r, wire,
                   mode, row_read, fwd_pc, abortedAt, abort_report>>
    /\ UNCHANGED devVars

\* The operator puts a tray_sequence.txt next to the program.
place_table ==
    /\ \A t \in Threads : pc[t] = "idle"
    /\ table = NoTable
    /\ table' \in Tables
    /\ UNCHANGED <<counterVars, op, TRAY_SEQUENCE_ROW, test_num, draws, used,
                   seqLocals, tray,
                   obsVars>>
    /\ UNCHANGED devVars

\* ----------------------------------------------------------- environment
\* The process stops at any point (killed, power loss, debug reloader): every
\* thread and every global is gone, the files stay as they are.
Crash ==
    /\ proc = "up"
    /\ proc' = "down"
    /\ pc' = [t \in Threads |-> "idle"]
    /\ current' = [t \in Threads |-> 0]
    /\ reg' = [t \in Threads |-> 0]
    /\ attempt' = [t \in Threads |-> 0]
    /\ config' = [t \in Threads |-> EmptyDict]
    /\ writes' = [t \in Threads |-> 0]
    /\ saved' = [t \in Threads |-> FALSE]
    /\ op' = [t \in Threads |-> "none"]
    /\ test_num' = [t \in Threads |-> 0]
    /\ i' = [t \in Threads |-> 0]
    /\ combo_count' = [t \in Threads |-> 0]
    /\ results' = [t \in Threads |-> <<>>]
    /\ draws' = [t \in Threads |-> 0]
    /\ used' = [t \in Threads |-> {}]
    /\ startCounter' = [t \in Threads |-> 0]
    /\ startRow' = [t \in Threads |-> 0]
    /\ advAttempts' = [t \in Threads |-> 0]
    /\ sendFailed' = [t \in Threads |-> FALSE]
    /\ test_r' = [t \in Threads |-> "none"]
    /\ abortedAt' = [t \in Threads |-> -1]
    /\ wire' = <<>>
    /\ row_read' = [c \in Callers |-> 0]
    /\ fwd_pc' = "idle"
    /\ fwd_status' = "none"
    /\ abort_report' = NoAbort
    /\ UNCHANGED <<TEST_COUNTER, TRAY_SEQUENCE_ROW, cfg, tmp, issued, lastRet,
                   loaded, stageVars, applied, mode>>
    /\ UNCHANGED devVars

\* Process start: the module globals get their initial values, then
\* __main__ calls load_test_counter and load_cup_coordinates; an exception
\* either raises ends the start.
Start ==
    /\ proc \in {"down", "failed"}
    /\ \E ioerr \in BOOLEAN, cup_ioerr \in BOOLEAN :
         LET r == load_test_counter(DEFAULT_TEST_COUNTER, cfg, ioerr)
             c == load_cup_coordinates(DEFAULT_FIRST_CUP, DEFAULT_LAST_CUP,
                                       cfg, cfg.cup, cup_ioerr)
         IN
           /\ proc' = IF r.raised \/ c.raised THEN "failed" ELSE "up"
           /\ FIRST_CUP' = IF r.raised THEN DEFAULT_FIRST_CUP ELSE c.first
           /\ LAST_CUP' = IF r.raised THEN DEFAULT_LAST_CUP ELSE c.last
           /\ TEST_COUNTER' = r.counter
           /\ loaded' = IF ~ioerr /\ cfg.kind = "object" /\ cfg.has_tc
                            /\ ~r.raised
                         THEN [has_tc |-> TRUE, tc |-> cfg.tc]
                         ELSE NotLoaded
    /\ TRAY_SEQUENCE_ROW' = FIRST_ROW
    /\ tray' = FALSE
    /\ applied' = <<>>
    /\ lastRet' = 0
    /\ UNCHANGED <<cfg, tmp, pc, current, reg, attempt, config, issued,
                   writes, saved, op, test_num, draws, used, seqLocals, table,
                   test_r, fwd_status, wire,
                   mode, row_read, fwd_pc, abortedAt, abort_report>>
    /\ UNCHANGED <<stageObj, stageConn, trayObj, locator, x550Obj,
                   cfg_before, parser, beamVars>>

\* The config file is lost or damaged from outside the program.
Corrupt ==
    /\ cfg.kind = "object" /\ cfg.has_tc
    /\ \A t \in Threads : pc[t] = "idle"
    /\ cfg' \in {Absent, Garbage, NonObject, EmptyDict}
    /\ UNCHANGED <<proc, TEST_COUNTER, tmp, pc, current, reg, attempt, config,
                   issued, lastRet, loaded, writes, saved,
                   seqVars>>
    /\ UNCHANGED devVars

\* ---------------------------------------------------------------- Spec
\* The counter store used by one callback at a time (no two calls of
\* get_next_test_number overlap), with process restarts and damage to the
\* config file.
Next ==
    \/ x550_quick_combo_test_2("t1")
    \/ get_next_test_number("t1")
    \/ quick_combo_finish("t1")
    \/ Crash
    \/ Start
    \/ Corrupt

Spec == Init /\ [][Next]_vars

\* ------------------------------------------------------------ RaceSpec
\* Two request threads run callbacks that draw test numbers at overlapping
\* times, in one process.
RaceNext ==
    \/ \E t \in Threads : x550_quick_combo_test_2(t)
    \/ \E t \in Threads : get_next_test_number(t)
    \/ \E t \in Threads : quick_combo_finish(t)

RaceSpec == Init /\ [][RaceNext]_vars

\* ------------------------------------------------------------- SeqSpec
\* The orchestrator: one callback at a time runs combo sequences in a
\* process that keeps running; the tray may be connected, the offset table
\* present, the cursor moved by hand.
SeqNext ==
    \/ \E k \in SeqKinds, connected \in BOOLEAN, count \in 0..MaxReps :
          start_sequence("t1", k, connected, count)
    \/ seq_loop("t1")
    \/ get_next_test_number("t1")
    \/ seq_mining("t1")
    \/ seq_soil("t1")
    \/ seq_advance("t1")
    \/ seq_send("t1")
    \/ seq_row_inc("t1")
    \/ seq_return("t1")
    \/ on_connect
    \/ btn_forward_sequence
    \/ btn_reset_sequence
    \/ place_table

SeqSpec == Init /\ [][SeqNext]_vars

\* ------------------------------------------------------------ AbortSpec
\* A combo sequence runs in one request thread, with the tray connected and
\* the offset table in place, while the Abort button may be pressed at any
\* moment.
AbortNext ==
    \/ \E k \in SeqKinds, connected \in BOOLEAN, count \in 0..MaxReps :
          start_sequence("t1", k, connected, count)
    \/ seq_loop("t1")
    \/ get_next_test_number("t1")
    \/ seq_mining("t1")
    \/ seq_soil("t1")
    \/ seq_advance("t1")
    \/ seq_send("t1")
    \/ seq_row_inc("t1")
    \/ seq_return("t1")
    \/ \E connected \in BOOLEAN, a \in AbortAnswers :
          abort_x550_combo_sequence(connected, <<a, a>>)

AbortSpec == ReadyInit /\ [][AbortNext]_vars

\* ------------------------------------------------------------ StageSpec
\* The stage handled by hand, in a program that may be stopped and started
\* again: Connect, the offset table, the Forward, Reset and Abort buttons.
StageNext ==
    \/ on_connect
    \/ place_table
    \/ btn_forward_sequence
    \/ btn_reset_sequence
    \/ \E connected \in BOOLEAN, a1 \in AbortAnswers, a2 \in AbortAnswers :
          abort_x550_combo_sequence(connected, <<a1, a2>>)
    \/ Crash
    \/ Start

StageSpec == Init /\ [][StageNext]_vars

\* ----------------------------------------------------------- ButtonSpec
\* The operator's buttons in a running program with the tray connected and
\* the offset table in place: quick combo test, Forward, Reset, Abort.
ButtonNext ==
    \/ x550_quick_combo_test_2("t1")
    \/ get_next_test_number("t1")
    \/ quick_combo_finish("t1")
    \/ btn_forward_sequence
    \/ btn_reset_sequence
    \/ \E connected \in BOOLEAN, a1 \in AbortAnswers, a2 \in AbortAnswers :
          abort_x550_combo_sequence(connected, <<a1, a2>>)

ButtonSpec == ReadyInit /\ [][ButtonNext]_vars

\* ------------------------------------------------------------ LiveSpec
\* One process that keeps running: the thread that is inside
\* get_next_test_number keeps taking steps.
LiveNext ==
    \/ x550_quick_combo_test_2("t1")
    \/ get_next_test_number("t1")
    \/ quick_combo_finish("t1")
    \/ Corrupt

LiveSpec == Init /\ [][LiveNext]_vars /\ WF_vars(get_next_test_number("t1"))

\* ---------------------------------------------------------- SeqLiveSpec
\* Combo sequences in a program that keeps running, with the tray connected
\* and the offset table in place: the request thread that runs the sequence
\* keeps taking steps (every request of the loop has a timeout, every send
\* returns or raises).
seq_step(t) ==
    \/ seq_loop(t)
    \/ get_next_test_number(t)
    \/ seq_mining(t)
    \/ seq_soil(t)
    \/ seq_advance(t)
    \/ seq_send(t)
    \/ seq_row_inc(t)
    \/ seq_return(t)

SeqLiveNext ==
    \/ \E k \in SeqKinds, connected \in BOOLEAN, count \in 0..MaxReps :
          start_sequence("t1", k, connected, count)
    \/ seq_step("t1")

SeqLiveSpec == ReadyInit /\ [][SeqLiveNext]_vars /\ WF_vars(seq_step("t1"))

\* ----------------------------------------------------------- SerialSpec
\* The 'tray-position-poll' interval fires update_tray_coordinates every two
\* seconds on a thread of its own.  With the tray connected it calls
\* get_position(), which writes M114 through TrayConnection._send; _send
\* takes no lock.  wire records the write when an advance has written its G91
\* and not yet its G90 (one M114 per advance is recorded; further polls in the
\* same advance add nothing new).
update_tray_coordinates(connected) ==
    /\ proc = "up"
    /\ wire' = IF /\ connected
                  /\ tray
                  /\ wire # <<>>
                  /\ \A n \in 1..Len(wire) : wire[n] # "M114"
               THEN Append(wire, "M114")
               ELSE wire
    /\ UNCHANGED <<counterVars, op, TRAY_SEQUENCE_ROW, test_num, draws, used,
                   seqLocals, stageVars, test_r, fwd_status, applied, mode,
                   row_read, fwd_pc,
                   abortedAt, abort_report>>
    /\ UNCHANGED devVars

SerialNext ==
    \/ \E k \in SeqKinds, connected \in BOOLEAN, count \in 0..MaxReps :
          start_sequence("t1", k, connected, count)
    \/ seq_step("t1")
    \/ \E connected \in BOOLEAN : update_tray_coordinates(connected)

SerialSpec == ReadyInit /\ [][SerialNext]_vars

\* ----------------------------------------------------------- ResultSpec
\* Runs of up to MaxReps + 1 repetitions, with the tray connected and the
\* offset table in place.
ResultNext ==
    \/ \E k \in SeqKinds, connected \in BOOLEAN, count \in 0..(MaxReps + 1) :
          start_sequence("t1", k, connected, count)
    \/ seq_step("t1")

ResultSpec == ReadyInit /\ [][ResultNext]_vars

\* =================================================================
\* Part 3: the devices
\* =================================================================

\* ------------------------------------------------------------ SerialStage
\* max(0, position_um)
max0(p) == IF p < 0 THEN 0 ELSE p

Axes == {"x", "y", "z"}

\* goto_x, goto_y, goto_z: the tracked coordinate is assigned, then _send
\* writes the G0 command.  sent = FALSE: the write raises (write_timeout is
\* set, the device may be unplugged) and the exception leaves the call.
stage_goto(name, a, p, sent) ==
    /\ stage_pos' = [stage_pos EXCEPT ![a] = max0(p)]
    /\ stage_out' = IF sent THEN [axis |-> a, coord |-> max0(p)] ELSE stage_out
    /\ stage_call' = [op |-> name, before |-> stage_pos, raised |-> ~sent]

goto_x(p, sent) ==
    /\ stage_instance = "set"
    /\ stage_goto("goto_x", "x", p, sent)
    /\ UNCHANGED <<counterVars, seqVars, stageConn, trayObj, locator, x550Obj, cupVars, cfg_before, parser, beamVars>>

goto_y(p, sent) ==
    /\ stage_instance = "set"
    /\ stage_goto("goto_y", "y", p, sent)
    /\ UNCHANGED <<counterVars, seqVars, stageConn, trayObj, locator, x550Obj, cupVars, cfg_before, parser, beamVars>>

goto_z(p, sent) ==
    /\ stage_instance = "set"
    /\ stage_goto("goto_z", "z", p, sent)
    /\ UNCHANGED <<counterVars, seqVars, stageConn, trayObj, locator, x550Obj, cupVars, cfg_before, parser, beamVars>>

\* move_x, move_y, move_z: goto of the tracked coordinate plus the distance
move_axis(a, distance, sent) ==
    /\ stage_instance = "set"
    /\ stage_pos[a] + distance <= MaxPos
    /\ stage_goto("move", a, stage_pos[a] + distance, sent)
    /\ UNCHANGED <<counterVars, seqVars, stageConn, trayObj, locator, x550Obj, cupVars, cfg_before, parser, beamVars>>

\* goto(pos): goto_x, goto_y, goto_z in turn; failAt is the send that raises
\* (0: none).  A raise leaves the call, the later axes are not assigned.
stage_goto_all(name, pos, failAt) ==
    /\ stage_pos' = [x |-> max0(pos[1]),
                     y |-> IF failAt = 1 THEN stage_pos.y ELSE max0(pos[2]),
                     z |-> IF failAt \in {1, 2} THEN stage_pos.z
                                                ELSE max0(pos[3])]
    /\ stage_out' = CASE failAt = 1 -> stage_out
                      [] failAt = 2 -> [axis |-> "x", coord |-> max0(pos[1])]
                      [] failAt = 3 -> [axis |-> "y", coord |-> max0(pos[2])]
                      [] OTHER      -> [axis |-> "z", coord |-> max0(pos[3])]
    /\ stage_call' = [op |-> name, before |-> stage_pos,
                      raised |-> failAt # 0]

goto(pos, failAt) ==
    /\ stage_instance = "set"
    /\ stage_goto_all("goto", pos, failAt)
    /\ UNCHANGED <<counterVars, seqVars, stageConn, trayObj, locator, x550Obj, cupVars, cfg_before, parser, beamVars>>

\* move_home: G28, then goto((0, 0, 0)); failAt = 1 is the G28 send
move_home(failAt) ==
    /\ stage_instance = "set"
    /\ IF failAt = 1
       THEN /\ stage_call' = [op |-> "move_home", before |-> stage_pos,
                              raised |-> TRUE]
            /\ UNCHANGED <<stage_pos, stage_out>>
       ELSE stage_goto_all("move_home", <<0, 0, 0>>,
                           IF failAt = 0 THEN 0 ELSE failAt - 1)
    /\ UNCHANGED <<counterVars, seqVars, stageConn, trayObj, locator, x550Obj, cupVars, cfg_before, parser, beamVars>>

\* the coordinates the callers ask for
Targets == -1..MaxPos

StageMoveNext ==
    \/ \E p \in Targets, sent \in BOOLEAN : goto_x(p, sent)
    \/ \E p \in Targets, sent \in BOOLEAN : goto_y(p, sent)
    \/ \E p \in Targets, sent \in BOOLEAN : goto_z(p, sent)
    \/ \E a \in Axes, distance \in {-1, 1}, sent \in BOOLEAN :
          move_axis(a, distance, sent)
    \/ \E px \in Targets, py \in Targets, pz \in Targets, failAt \in 0..3 :
          goto(<<px, py, pz>>, failAt)
    \/ \E failAt \in 0..4 : move_home(failAt)

\* a SerialStage has been constructed by stage_connect
StageReadyInit ==
    /\ InitCore
    /\ tray = FALSE
    /\ table = NoTable
    /\ SerialStageInit
    /\ stage_instance = "set"
    /\ StageConnInit
    /\ TrayObjInit
    /\ LocatorInit
    /\ X550Init
    /\ CupInit
    /\ ParserInit

StageMoveSpec == StageReadyInit /\ [][StageMoveNext]_vars

\* --------------------------------------------------------- TrayConnection
\* What the serial port does during a call: serial.Serial raises
\* ("refused"); the port opens and the write raises ("broken"); the write
\* goes through and no line comes back ("silent"); a line comes back
\* ("answering").
PortBehaviours == {"refused", "broken", "silent", "answering"}
OpenBehaviours == {"broken", "silent", "answering"}

\* connect: True once serial.Serial and the write of M115 went through; the
\* port is not read
connect_result(b) == b \in {"silent", "answering"}

\* (variant: _send writes although ser is None)
send_result_without_guard(connected, b) ==
    IF b = "broken" THEN [raised |-> "SerialException", wrote |-> FALSE]
    ELSE [raised |-> "none", wrote |-> TRUE]

\* _send: RuntimeError when ser is None, else write and flush
send_result(connected, b) ==
    IF ~connected THEN [raised |-> "RuntimeError", wrote |-> FALSE]
    ELSE IF b = "broken" THEN [raised |-> "SerialException", wrote |-> FALSE]
    ELSE [raised |-> "none", wrote |-> TRUE]

pyBool(v) == IF v THEN "True" ELSE "False"

\* the serial handles this process holds open
open_handles == (IF tray THEN 1 ELSE 0) + leaked

\* connect(): self.ser = serial.Serial(...), sleep, _send("M115"); on any
\* exception self.ser = None.  The handle ser referred to before the call,
\* and the handle of a port whose write raised, are not closed: they stay
\* open until the finaliser of the Serial object runs.
TrayConnection_connect(b) ==
    /\ proc = "up"
    /\ leaked + (IF tray THEN 1 ELSE 0) + (IF b = "broken" THEN 1 ELSE 0)
          <= MaxLeaked
    /\ tray' = connect_result(b)
    /\ leaked' = leaked + (IF tray THEN 1 ELSE 0)
                        + (IF b = "broken" THEN 1 ELSE 0)
    /\ tc_call' = [op |-> "connect", port |-> b, raised |-> "none",
                   wrote |-> b \in {"silent", "answering"},
                   ret |-> pyBool(connect_result(b))]
    /\ UNCHANGED <<counterVars, op, TRAY_SEQUENCE_ROW, test_num, draws, used,
                   seqLocals, table, obsVars, stageObj, stageConn, tray_out,
                   conn_data, locator, x550Obj, cupVars, cfg_before, parser, beamVars>>

\* the finaliser of a Serial object that nothing refers to closes its handle
finalise ==
    /\ leaked > 0
    /\ leaked' = leaked - 1
    /\ UNCHANGED <<counterVars, seqVars, stageObj, stageConn, tray_out,
                   tc_call, conn_data, locator, x550Obj, cupVars, cfg_before, parser, beamVars>>

\* disconnect(): close ser when set, ser = None
TrayConnection_disconnect ==
    /\ proc = "up"
    /\ tray' = FALSE
    /\ tc_call' = [op |-> "disconnect", port |-> "n/a", raised |-> "none",
                   wrote |-> FALSE, ret |-> "None"]
    /\ UNCHANGED <<counterVars, op, TRAY_SEQUENCE_ROW, test_num, draws, used,
                   seqLocals, table, obsVars, stageObj, stageConn, leaked,
                   tray_out, conn_data, locator, x550Obj, cupVars, cfg_before, parser, beamVars>>

\* a call that is _send, or _send followed by _read_response (which raises
\* the same RuntimeError when ser is None and swallows read errors)
tray_command(name, b) ==
    /\ proc = "up"
    /\ tc_call' = [op |-> name, port |-> b,
                   raised |-> send_result(tray, b).raised,
                   wrote |-> send_result(tray, b).wrote, ret |-> "None"]
    /\ UNCHANGED <<counterVars, seqVars, stageObj, stageConn, leaked,
                   conn_data, locator, x550Obj, cupVars, cfg_before, parser, beamVars>>

TrayConnection_send(b) ==
    /\ tray_command("_send", b)
    /\ UNCHANGED tray_out

TrayConnection_home(b) ==
    /\ tray_command("home", b)
    /\ UNCHANGED tray_out

\* goto(x, y, z): "G0 X.. Y.. Z.. F3000" with the arguments as they are
TrayConnection_goto(x, y, z, b) ==
    /\ tray_command("goto", b)
    /\ tray_out' = IF send_result(tray, b).wrote
                   THEN [x |-> x, y |-> y, z |-> z] ELSE tray_out

TrayNext ==
    \/ \E b \in PortBehaviours : TrayConnection_connect(b)
    \/ finalise
    \/ TrayConnection_disconnect
    \/ \E b \in OpenBehaviours : TrayConnection_send(b)
    \/ \E b \in OpenBehaviours : TrayConnection_home(b)
    \/ \E x \in Targets, y \in Targets, b \in OpenBehaviours :
          TrayConnection_goto(x, y, 0, b)

TraySpec == Init /\ [][TrayNext]_vars

\* --------------------------------------------------------- find_tray_port
\* the defaults of prefer_vidpid and prefer_keywords
prefer_vidpid == {"1A86:7523", "10C4:EA60", "0403:6001"}
prefer_keywords == {"CREALITY", "ENDER", "CH340", "CP210", "USB-SERIAL",
                    "USB SERIAL", "UART"}

\* A listed device: its serial_number ("None" when it has none), the VID:PID
\* its hwid carries and the word its description and manufacturer carry.
\* Two of each are enough to have every combination of the three matches.
Devices == [serial_number : {"None", "A1"},
            hwid : {"1A86:7523", "8087:0A2B"},
            description : {"CH340", "BLUETOOTH"}]

\* the configured serial number: None, the empty string, the serial number
\* of a device, a serial number no device has
SerialConfigs == {"None", "", "A1", "B2"}

\* the first position of ports whose device passes Test, 0 when none does
first_match(pp, Test(_)) ==
    LET S == {n \in 1..Len(pp) : Test(pp[n])}
    IN  IF S = {} THEN 0 ELSE CHOOSE n \in S : \A m \in S : n <= m

serial_match(p, usb_serial) == p.serial_number = usb_serial
vidpid_match(p) == \E vp \in prefer_vidpid : vp = p.hwid
keyword_match(p) == \E kw \in prefer_keywords : kw = p.description

\* "if tray_usb_serial:" is false for None and for the empty string
truthy(usb_serial) == usb_serial \notin {"None", ""}

\* (variant: the keyword pass runs before the VID:PID pass)
find_tray_port_keyword_first(pp, usb_serial) ==
    LET by_serial == IF truthy(usb_serial)
                     THEN first_match(pp, LAMBDA p : serial_match(p, usb_serial))
                     ELSE 0
        by_vidpid == first_match(pp, vidpid_match)
        by_keyword == first_match(pp, keyword_match)
    IN  IF by_serial # 0 THEN by_serial
        ELSE IF by_keyword # 0 THEN by_keyword
        ELSE by_vidpid

\* find_tray_port: the three passes over ports, each returning at its first
\* match
find_tray_port(pp, usb_serial) ==
    LET by_serial == IF truthy(usb_serial)
                     THEN first_match(pp, LAMBDA p : serial_match(p, usb_serial))
                     ELSE 0
        by_vidpid == first_match(pp, vidpid_match)
        by_keyword == first_match(pp, keyword_match)
    IN  IF by_serial # 0 THEN by_serial
        ELSE IF by_vidpid # 0 THEN by_vidpid
        ELSE by_keyword

\* a call of find_tray_port
locate ==
    /\ tray_port = -1
    /\ tray_port' = find_tray_port(ports, tray_usb_serial)
    /\ UNCHANGED <<counterVars, seqVars, stageObj, stageConn, trayObj, ports,
                   tray_usb_serial, x550Obj, cupVars, cfg_before, parser, beamVars>>

LocatorNext ==
    \/ locate

\* every list of up to MaxPorts devices, every configured serial number
LocatorStart ==
    /\ InitCore
    /\ tray = FALSE
    /\ table = NoTable
    /\ SerialStageInit
    /\ stage_instance = "None"
    /\ StageConnInit
    /\ TrayObjInit
    /\ X550Init
    /\ CupInit
    /\ ParserInit
    /\ \E n \in 0..MaxPorts : ports \in [1..n -> Devices]
    /\ tray_usb_serial \in SerialConfigs
    /\ tray_port = -1

LocatorSpec == LocatorStart /\ [][LocatorNext]_vars

\* --------------------------------------------------------- X550Connection
\* the defaults of port_start and port_end, the port connect() puts first
\* and the port it leaves out
PORT_START == 8070
PORT_END == 8090
FIRST_PORT == 8080
SKIPPED_PORT == 8071
id_paths == <<"/api/v2/id", "/api/v1/id", "/api/id">>
\* path.rsplit("/", 1)[0] of each of them
api_roots == <<"/api/v2", "/api/v1", "/api">>
\* port_override = None
NoPort == 0

\* What answers the id requests: at env.host, env.port every path from
\* id_paths[env.path] on answers 200 with a JSON object holding 'family';
\* every other request gets env.other: no answer (RequestException), a status
\* other than 200, a body that is not JSON, JSON that is not an object, an
\* object without 'family' and 'apps'.
OtherAnswers == {"no_answer", "non200", "not_json", "not_object", "no_keys"}

answer(env, h, p, j) ==
    IF env.host = h /\ env.port = p /\ j >= env.path THEN "valid"
    ELSE env.other

RECURSIVE range_seq(_, _)
range_seq(a, b) == IF a > b THEN <<>> ELSE <<a>> \o range_seq(a + 1, b)

not_skipped(p) == p # SKIPPED_PORT

\* ports = [8080] + [p for p in range(port_start, port_end + 1) if p != 8071]
scan_ports(port_start, port_end) ==
    <<FIRST_PORT>> \o SelectSeq(range_seq(port_start, port_end), not_skipped)

\* the requests of the two nested loops over the ports pp, in order
scan_requests(h, pp) ==
    [k \in 1..(3 * Len(pp)) |->
        [host |-> h, port |-> pp[((k - 1) \div 3) + 1],
         path |-> ((k - 1) % 3) + 1]]

\* the requests c are sent in order up to the first one whose answer passes
\* all four checks; k is its position, 0 when there is none
scan_result(h, c, k) ==
    [ok |-> k # 0,
     url |-> IF k = 0 THEN NoUrl ELSE [host |-> h, port |-> c[k].port],
     root |-> IF k = 0 THEN "None" ELSE api_roots[c[k].path],
     sent |-> IF k = 0 THEN c ELSE SubSeq(c, 1, k)]

first_valid(env, c) ==
    IF \A k \in 1..Len(c) :
          answer(env, c[k].host, c[k].port, c[k].path) # "valid"
    THEN 0
    ELSE CHOOSE n \in 1..Len(c) :
            /\ answer(env, c[n].host, c[n].port, c[n].path) = "valid"
            /\ \A m \in 1..(n - 1) :
                  answer(env, c[m].host, c[m].port, c[m].path) # "valid"

scan_over(h, c, env) == scan_result(h, c, first_valid(env, c))

\* X550Connection.connect
scan(h, port_start, port_end, env) ==
    scan_over(h, scan_requests(h, scan_ports(port_start, port_end)), env)

\* connect() of an X550Connection that was just constructed
X550Connection_connect(h, port_start, port_end, env) ==
    /\ proc = "up"
    /\ x550_call = NoX550Call
    /\ LET r == scan(h, port_start, port_end, env)
       IN  /\ base_url' = r.url
           /\ api_root' = r.root
           /\ probes' = r.sent
           /\ x550_call' = [op |-> "connect", host |-> h,
                            port_start |-> port_start, port_end |-> port_end,
                            port_override |-> NoPort, env |-> env,
                            ret |-> r.ok]
    /\ UNCHANGED <<counterVars, seqVars, stageObj, stageConn, trayObj,
                   locator, cupVars, cfg_before, parser, beamVars, sent_url>>

\* connect_x550: the candidates (host, port) in the order they are tried
candidates(host, port_override) ==
    IF host \in {"127.0.0.1", "localhost"}
    THEN (IF port_override = NoPort
          THEN <<[host |-> "192.168.42.129", port |-> 8080],
                 [host |-> "192.168.42.1", port |-> 8080]>>
          ELSE <<>>)
         \o <<[host |-> "127.0.0.1", port |-> port_override]>>
    ELSE <<[host |-> host, port |-> port_override]>>

\* x550 = X550Connection(...); x550.connect() for one candidate
try_candidate(cand, env) ==
    IF cand.port # NoPort
    THEN scan(cand.host, cand.port, cand.port, env)
    ELSE scan(cand.host, PORT_START, PORT_END, env)

\* the loop over the candidates: it returns at the first that connects
RECURSIVE try_candidates(_, _, _)
try_candidates(cands, env, sent) ==
    IF cands = <<>>
    THEN [ok |-> FALSE, url |-> NoUrl, root |-> "None", sent |-> sent]
    ELSE LET r == try_candidate(Head(cands), env)
         IN  IF r.ok
             THEN [ok |-> TRUE, url |-> r.url, root |-> r.root,
                   sent |-> sent \o r.sent]
             ELSE try_candidates(Tail(cands), env, sent \o r.sent)

\* connect_x550(host, port_override): a first discovery, a call after a
\* discovery that connected (further calls repeat the second), or a call
\* after a heartbeat
connect_x550(host, port_override, env) ==
    /\ proc = "up"
    /\ \/ x550_call = NoX550Call
       \/ base_url # NoUrl /\ x550_call.op = "connect_x550" /\ probes # <<>>
       \/ x550_call.op = "heartbeat"
    /\ IF base_url # NoUrl
       THEN /\ probes' = <<>>
            /\ x550_call' = [op |-> "connect_x550", host |-> host,
                             port_start |-> 0, port_end |-> 0,
                             port_override |-> port_override, env |-> env,
                             ret |-> TRUE]
            /\ UNCHANGED <<base_url, api_root>>
       ELSE LET h == IF host = "" THEN "127.0.0.1" ELSE host
                r == try_candidates(candidates(h, port_override), env, <<>>)
            IN  /\ base_url' = r.url
                /\ api_root' = r.root
                /\ probes' = r.sent
                /\ x550_call' = [op |-> "connect_x550", host |-> host,
                                 port_start |-> 0, port_end |-> 0,
                                 port_override |-> port_override,
                                 env |-> env, ret |-> r.ok]
    /\ UNCHANGED <<counterVars, seqVars, stageObj, stageConn, trayObj,
                   locator, cupVars, cfg_before, parser, beamVars, sent_url>>

\* x550_heartbeat_monitor with an X550 connected (without one it returns at
\* once): X550Connection.heartbeat asks base_url + api_root + "/id" and
\* returns whether the answer was 200; a request error is caught and gives
\* False.  base_url and api_root are not assigned.
X550Connection_heartbeat(status) ==
    /\ proc = "up"
    /\ base_url # NoUrl
    /\ x550_call.op # "heartbeat"
    /\ probes' = <<>>
    /\ x550_call' = [op |-> "heartbeat", host |-> base_url.host,
                     port_start |-> 0, port_end |-> 0,
                     port_override |-> NoPort, env |-> NoService,
                     ret |-> status = "200"]
    /\ UNCHANGED <<base_url, api_root, sent_url>>
    /\ UNCHANGED <<counterVars, seqVars, stageObj, stageConn, trayObj,
                   locator, cupVars, cfg_before, parser, beamVars>>

\* what the heartbeat request meets
HeartbeatAnswers == {"200", "500", "RequestException"}

\* the hosts asked for and answering, the fixed ports asked for, the ranges
\* an X550Connection is constructed with
Hosts == {"127.0.0.1", "10.0.0.5"}
FixedPorts == {8071, 8075, 8080}
ScanRanges == {<<PORT_START, PORT_END>>, <<8070, 8073>>, <<8075, 8075>>}
Services(hh, pp) ==
    {NoService} \cup
    [host : hh, port : pp, path : 1..3, other : OtherAnswers]

DiscoveryNext ==
    \/ \E h \in Hosts, rg \in ScanRanges :
          \E env \in Services({h}, PORT_START..PORT_END) :
             X550Connection_connect(h, rg[1], rg[2], env)
    \/ \E host \in Hosts \cup {""}, port_override \in FixedPorts \cup {NoPort},
          env \in Services(Hosts \cup {"192.168.42.1"}, FixedPorts) :
          connect_x550(host, port_override, env)

DiscoverySpec == Init /\ [][DiscoveryNext]_vars

\* The first URL a callback asks once the X550 is connected: base_url is
\* x550_data["x550_url"], which on_connect_x550 stored from connect_x550;
\* the path is a literal of the callback.
request_paths ==
    [test       |-> "/api/v2/test/final",
     abort      |-> "/api/v2/test/abort",
     energyCal  |-> "/api/v2/energyCal",
     status     |-> "/api/v2/status",
     screenshot |-> "/api/v2/screenshot"]

x550_request(what) ==
    /\ proc = "up"
    /\ base_url # NoUrl
    /\ sent_url' = [host |-> base_url.host, port |-> base_url.port,
                    path |-> request_paths[what]]
    /\ UNCHANGED <<base_url, api_root, probes, x550_call>>
    /\ UNCHANGED <<counterVars, seqVars, stageObj, stageConn, trayObj,
                   locator, cupVars, cfg_before, parser, beamVars>>

RequestNext ==
    \/ \E host \in {"127.0.0.1", "10.0.0.5"},
          port_override \in {NoPort, 8080},
          env \in Services({"127.0.0.1", "10.0.0.5"}, {8080, 8075}) :
          connect_x550(host, port_override, env)
    \/ \E what \in DOMAIN request_paths : x550_request(what)

RequestSpec == Init /\ [][RequestNext]_vars

HeartbeatNext ==
    \/ \E host \in {"127.0.0.1", "10.0.0.5"},
          port_override \in {NoPort, 8080},
          env \in Services({"127.0.0.1", "10.0.0.5"}, {8080, 8075}) :
          connect_x550(host, port_override, env)
    \/ \E status \in HeartbeatAnswers : X550Connection_heartbeat(status)

HeartbeatSpec == Init /\ [][HeartbeatNext]_vars

\* ------------------------------------------------------------ connect_all
\* connect_all(tray_usb_serial, tray_port_override), with pp what comports()
\* lists and b what the port does.  port_override: 0 for None, else the
\* position of the forced port.
connect_all(usb_serial, port_override, pp, b) ==
    /\ proc = "up"
    /\ \A t \in Threads : pc[t] = "idle"
    /\ IF tray /\ base_url # NoUrl
       THEN \* already connected: reuse
            /\ conn_data' = [tray_connected |-> TRUE, ready |-> TRUE,
                             tray_port |-> conn_data.tray_port,
                             error |-> [message |-> "None",
                                        devices |-> <<>>]]
            /\ UNCHANGED <<tray, leaked, tc_call, locator>>
       ELSE /\ ports' = pp
            /\ tray_usb_serial' = usb_serial
            /\ tray_port' = IF port_override # 0 THEN port_override
                            ELSE find_tray_port(pp, usb_serial)
            /\ IF tray_port' = 0
               THEN /\ conn_data' = [tray_connected |-> FALSE,
                                     ready |-> FALSE, tray_port |-> 0,
                                     error |-> [message |-> "Tray not found",
                                                devices |-> <<>>]]
                    /\ UNCHANGED <<tray, leaked, tc_call>>
               ELSE \* tray = TrayConnection(tray_port); tray.connect();
                    \* _TRAY_INSTANCE = tray when it returned True: the
                    \* instance held before is dropped with its handle open
                    /\ leaked + (IF b = "broken" THEN 1 ELSE 0)
                              + (IF connect_result(b) /\ tray THEN 1 ELSE 0)
                          <= MaxLeaked
                    /\ leaked' = leaked
                          + (IF b = "broken" THEN 1 ELSE 0)
                          + (IF connect_result(b) /\ tray THEN 1 ELSE 0)
                    /\ tray' = (connect_result(b) \/ tray)
                    /\ tc_call' = [op |-> "connect", port |-> b,
                                   raised |-> "none",
                                   wrote |-> b \in {"silent", "answering"},
                                   ret |-> pyBool(connect_result(b))]
                    /\ conn_data' =
                          [tray_connected |-> connect_result(b),
                           ready |-> connect_result(b),
                           tray_port |-> tray_port',
                           error |-> [message |-> IF connect_result(b)
                                                  THEN "None"
                                                  ELSE "Tray connection failed",
                                      devices |-> <<>>]]
    /\ UNCHANGED <<counterVars, op, TRAY_SEQUENCE_ROW, test_num, draws, used,
                   seqLocals, table, obsVars, stageObj, stageConn, tray_out,
                   x550Obj, cupVars, cfg_before, parser, beamVars>>

\* ---------------------------------------------------------- stage_connect
\* the serial handles the process of 550_app_v4.py holds open
stage_open_handles == (IF stage_instance = "set" THEN 1 ELSE 0) + stage_leaked

\* SerialStage.__init__: serial.Serial, then _send("M115"), whose answer is
\* read and dropped
SerialStage_init(b) == b \in {"silent", "answering"}

\* stage_connect with conn_type "usb": _stage_instance = SerialStage(...);
\* on any exception _stage_instance = None.  Neither the handle of the
\* instance held before nor that of a port whose write raised is closed.
stage_connect(b) ==
    /\ stage_leaked + (IF stage_instance = "set" THEN 1 ELSE 0)
                    + (IF b = "broken" THEN 1 ELSE 0) <= MaxLeaked
    /\ stage_leaked' = stage_leaked
                          + (IF stage_instance = "set" THEN 1 ELSE 0)
                          + (IF b = "broken" THEN 1 ELSE 0)
    /\ stage_instance' = IF SerialStage_init(b) THEN "set" ELSE "None"
    /\ stage_pos' = IF SerialStage_init(b) THEN [x |-> 0, y |-> 0, z |-> 0]
                    ELSE stage_pos
    /\ stage_ready' = [port |-> b, ok |-> SerialStage_init(b)]
    /\ UNCHANGED <<counterVars, seqVars, stage_out, stage_call, trayObj,
                   locator, x550Obj, cupVars, cfg_before, parser, beamVars>>

\* the finaliser of a Serial object of 550_app_v4.py closes its handle
stage_finalise ==
    /\ stage_leaked > 0
    /\ stage_leaked' = stage_leaked - 1
    /\ UNCHANGED <<counterVars, seqVars, stageObj, stage_instance,
                   stage_ready, trayObj, locator, x550Obj, cupVars, cfg_before, parser, beamVars>>

\* comports() lists nothing, the tray, or a device that is not the tray
ConnPorts ==
    {<<>>,
     <<[serial_number |-> "None", hwid |-> "1A86:7523",
        description |-> "CH340"]>>,
     <<[serial_number |-> "None", hwid |-> "8087:0A2B",
        description |-> "BLUETOOTH"]>>}

\* on_connect calls connect_all(None, None); on_connect_x550 connects the
\* analyzer
ConnNext ==
    \/ \E pp \in ConnPorts, b \in PortBehaviours :
          connect_all("None", 0, pp, b)
    \/ finalise
    \/ \E env \in Services({"10.0.0.5"}, {8080}) :
          connect_x550("10.0.0.5", 8080, env)
    \/ \E b \in PortBehaviours : stage_connect(b)
    \/ stage_finalise

ConnSpec == Init /\ [][ConnNext]_vars

\* ----------------------------------------------- tray_checks: the cup moves
\* btn-first and btn-edit-first: goto(FIRST_CUP_X, FIRST_CUP_Y, 0)
btn_first(b) ==
    /\ tray
    /\ TrayConnection_goto(FIRST_CUP.x, FIRST_CUP.y, 0, b)

\* btn-last: goto(LAST_CUP_X, LAST_CUP_Y, 0)
btn_last(b) ==
    /\ tray
    /\ TrayConnection_goto(LAST_CUP.x, LAST_CUP.y, 0, b)

\* btn-position-tray: goto(173.0, 58.0, 0.0)
btn_position_tray(b) ==
    /\ tray
    /\ TrayConnection_goto(173, 58, 0, b)

\* the positions get_position reports when the first cup is saved
SavedPositions == {[x |-> 0, y |-> 0], [x |-> 10, y |-> 120]}

\* btn-save-first: the position read becomes the first cup, the last cup is
\* computed from it; the config file is read (a missing, unreadable or
\* unparsable file gives {}), the cup keys are set and the whole dict is
\* written back.  read = FALSE: get_position raised (caught); written =
\* FALSE: the write raised (caught, after the globals were assigned), as does
\* the assignment of a key when the file holds JSON that is not an object.
btn_save_first(pos, read, ioerr, written) ==
    /\ proc = "up"
    /\ tray
    /\ \A t \in Threads : pc[t] = "idle"
    /\ tc_call' = [op |-> "get_position", port |-> "answering",
                   raised |-> IF read THEN "none" ELSE "ValueError",
                   wrote |-> TRUE, ret |-> "None"]
    /\ FIRST_CUP' = IF read THEN pos ELSE FIRST_CUP
    /\ LAST_CUP' = IF read THEN last_cup_of(pos) ELSE LAST_CUP
    /\ cfg' = IF read /\ written /\ read_config(cfg, ioerr).kind = "object"
              THEN [read_config(cfg, ioerr) EXCEPT
                       !.cup = [has |-> TRUE, x |-> pos.x, y |-> pos.y]]
              ELSE cfg
    /\ UNCHANGED <<proc, TEST_COUNTER, tmp, pc, current, reg, attempt, config,
                   issued, lastRet, loaded, writes, saved, seqVars, stageObj,
                   stageConn, leaked, tray_out, conn_data, locator, x550Obj,
                   parser, beamVars, cfg_before>>

CupNext ==
    \/ \E b \in OpenBehaviours : btn_first(b)
    \/ \E b \in OpenBehaviours : btn_last(b)
    \/ \E b \in OpenBehaviours : btn_position_tray(b)
    \/ \E pos \in SavedPositions, read \in BOOLEAN, ioerr \in BOOLEAN,
          written \in BOOLEAN :
          btn_save_first(pos, read, ioerr, written)
    \/ on_connect
    \/ Crash
    \/ Start

CupSpec == ReadyInit /\ [][CupNext]_vars

\* ------------------------------------------------------------------------
\* TrayConnection.get_position: the M114 response and its parsing.
\* A response is a sequence of characters; a position is kept in hundredths
\* of a millimetre, so that 10.00 is 1000.
\* ------------------------------------------------------------------------

Digits == <<"0", "1", "2", "3", "4", "5", "6", "7", "8", "9">>

IsDigit(c) == \E k \in 1..10 : Digits[k] = c

\* int() of one digit
digit_value(c) == (CHOOSE k \in 1..10 : Digits[k] = c) - 1

\* \s of the patterns; _read_response strips the lines and joins them with \n
IsSpace(c) == c \in {" ", "\n"}

\* the character at p, "" past the end of the response
char_at(s, p) == IF p \in 1..Len(s) THEN s[p] ELSE ""

\* where \s* ends when it starts at p
skip_space(s, p) ==
    CHOOSE q \in p..(Len(s) + 1) :
        /\ ~IsSpace(char_at(s, q))
        /\ \A r \in p..(q - 1) : IsSpace(s[r])

\* where \d* ends when it starts at p
skip_digits(s, p) ==
    CHOOSE q \in p..(Len(s) + 1) :
        /\ ~IsDigit(char_at(s, q))
        /\ \A r \in p..(q - 1) : IsDigit(s[r])

\* The number of a pattern: how many characters the group takes at p, 0 when
\* it cannot match there.  alt = FALSE is -?\d*\.?\d+ of the first pattern,
\* alt = TRUE is -?\d+\.?\d* of the alternative pattern.
number_length(s, p, alt) ==
    LET a  == IF char_at(s, p) = "-" THEN p + 1 ELSE p
        b  == skip_digits(s, a)
        c  == IF char_at(s, b) = "." THEN skip_digits(s, b + 1) ELSE b
    IN  IF alt
        THEN IF b = a THEN 0 ELSE c - p
        ELSE IF c > b + 1 THEN c - p
             ELSE IF b > a THEN b - p
             ELSE 0

\* the one element of a singleton; {F(v) : v \in {e}} evaluates e once
the(S) == CHOOSE e \in S : TRUE

NoGroup == [ok |-> FALSE, text |-> <<>>, next |-> 0]

\* \s*(number) from p on: the group's text and where the match goes on
group(s, p, alt) ==
    the({ the({ [ok |-> n > 0, text |-> SubSeq(s, a, a + n - 1),
                 next |-> a + n] : n \in {number_length(s, a, alt)} })
          : a \in {skip_space(s, p)} })

\* \s*Y:\s*(number) from p on, for the label Y or Z
labelled(s, p, label, alt) ==
    the({ IF char_at(s, a) = label /\ char_at(s, a + 1) = ":"
          THEN group(s, a + 2, alt)
          ELSE NoGroup : a \in {skip_space(s, p)} })

\* X: of the first pattern, X[.:]? of the alternative one: where the match
\* goes on after the label at p, 0 when the label is not there
x_label(s, p, alt) ==
    IF char_at(s, p) # "X" THEN 0
    ELSE IF alt
         THEN IF char_at(s, p + 1) \in {".", ":"} THEN p + 2 ELSE p + 1
         ELSE IF char_at(s, p + 1) = ":" THEN p + 2 ELSE 0

NoMatch == [ok |-> FALSE, x |-> <<>>, y |-> <<>>, z |-> <<>>]

\* the three groups once the X group gx is known
match_after_x(s, gx, alt) ==
    the({ the({ IF gx.ok /\ gy.ok /\ gz.ok
                THEN [ok |-> TRUE, x |-> gx.text, y |-> gy.text,
                      z |-> gz.text]
                ELSE NoMatch
                : gz \in {IF gy.ok THEN labelled(s, gy.next, "Z", alt)
                                   ELSE NoGroup} })
          : gy \in {IF gx.ok THEN labelled(s, gx.next, "Y", alt)
                             ELSE NoGroup} })

\* the pattern matched with its X at p: the three groups, or NoMatch
match_at(s, p, alt) ==
    IF x_label(s, p, alt) = 0 THEN NoMatch
    ELSE the({ match_after_x(s, gx, alt)
               : gx \in {group(s, x_label(s, p, alt), alt)} })

\* re.search: the match that starts leftmost
re_search(s, alt) ==
    the({ IF \A p \in 1..Len(s) : ~all[p].ok THEN NoMatch
          ELSE all[CHOOSE p \in 1..Len(s) :
                       all[p].ok /\ \A r \in 1..(p - 1) : ~all[r].ok]
          : all \in {[p \in 1..Len(s) |-> match_at(s, p, alt)]} })

RECURSIVE digits_value(_)
\* int() of a run of digits, 0 for the empty run
digits_value(d) ==
    IF d = <<>> THEN 0
    ELSE 10 * digits_value(SubSeq(d, 1, Len(d) - 1)) + digit_value(d[Len(d)])

\* float() of a group, in hundredths; later decimals are dropped
float(t) ==
    LET neg  == t[1] = "-"
        u    == IF neg THEN Tail(t) ELSE t
        n    == skip_digits(u, 1)
        frac == IF n <= Len(u) THEN SubSeq(u, n + 1, Len(u)) ELSE <<>>
        f2   == SubSeq(frac \o <<"0", "0">>, 1, 2)
        v    == 100 * digits_value(SubSeq(u, 1, n - 1)) + digits_value(f2)
    IN  IF neg THEN 0 - v ELSE v

\* what get_position makes of the response: the first pattern, then the
\* alternative one, then ValueError with the response in its message
parse_position(s) ==
    the({ IF match.ok
          THEN [raised |-> "no", x |-> float(match.x), y |-> float(match.y),
                z |-> float(match.z), message |-> <<>>]
          ELSE [raised |-> "ValueError", x |-> 0, y |-> 0, z |-> 0,
                message |-> s]
          : match \in {the({ IF first.ok THEN first ELSE re_search(s, TRUE)
                             : first \in {re_search(s, FALSE)} })} })

\* get_position on a connected tray: M114 is sent, the response is read and
\* parsed.
TrayConnection_get_position(s) ==
    /\ proc = "up"
    /\ tray
    /\ position = NoPosition
    /\ m114' = s
    /\ position' = parse_position(s)
    /\ tc_call' = [op |-> "get_position", port |-> "answering",
                   raised |-> IF position'.raised = "no"
                              THEN "none" ELSE "ValueError",
                   wrote |-> TRUE, ret |-> "None"]
    /\ UNCHANGED <<counterVars, seqVars, stageObj, stageConn, leaked, tray_out,
                   conn_data, locator, x550Obj, cupVars, cfg_before, beamVars>>

\* ---- the firmware's side: what an M114 response looks like ----

RECURSIVE decimal(_)
\* %d of a natural number
decimal(n) ==
    IF n < 10 THEN <<Digits[n + 1]>>
    ELSE decimal(n \div 10) \o <<Digits[(n % 10) + 1]>>

\* %.2f of a position in hundredths
fixed2(v) ==
    LET a == IF v < 0 THEN 0 - v ELSE v
    IN  (IF v < 0 THEN <<"-">> ELSE <<>>)
        \o decimal(a \div 100) \o <<".">>
        \o <<Digits[((a % 100) \div 10) + 1], Digits[(a % 10) + 1]>>

\* steps per millimetre of the firmware's step counters
STEPS_PER_MM == 80

\* the step counter of a position (whole steps for the positions used)
steps(v) == (v * STEPS_PER_MM) \div 100

\* "X:10.00 Y:5.00 Z:0.00", with sep = "." the variant "X.10.00 ..."
report(sep, x, y, z) ==
    <<"X", sep>> \o fixed2(x) \o <<" ", "Y", ":">> \o fixed2(y)
                 \o <<" ", "Z", ":">> \o fixed2(z)

\* " E:0.00 Count X:800 Y:400 Z:0": how the firmware ends the report line
count_suffix(x, y, z) ==
    <<" ", "E", ":", "0", ".", "0", "0", " ", "C", "o", "u", "n", "t", " ">>
    \o <<"X", ":">> \o decimal(steps(x)) \o <<" ", "Y", ":">>
    \o decimal(steps(y)) \o <<" ", "Z", ":">> \o decimal(steps(z))

ok_line == <<"\n", "o", "k">>

\* positions in hundredths of a millimetre the tray reports
Reported == {0, 500, 1000, 12050}

\* heights in hundredths of a millimetre the tray reports
Lifts == {0, 500}

Separators == {":", "."}

\* the report alone, or the whole answer with the counters and the ok line
Reports ==
    {report(sep, x, y, z) : sep \in Separators, x \in Reported,
                            y \in Reported, z \in Lifts}
    \cup {report(sep, x, y, z) \o count_suffix(x, y, z) \o ok_line :
              sep \in Separators, x \in Reported, y \in Reported,
              z \in Lifts}

\* answers without a position
Unrecognised ==
    { <<>>,
      <<"o", "k">>,
      <<"X", ":", "1", "0", ".", "0", "0", " ", "Y", ":", "5", ".", "0", "0">>,
      <<"X", ":", "1", ".", "5", ".", "0", " ", "Y", ":", "1", " ",
        "Z", ":", "1">>,
      <<"X", ".", ".", "5", " ", "Y", ":", ".", "5", " ", "Z", ":", ".", "5">>,
      <<"b", "u", "s", "y", "\n", "o", "k">> }

M114Responses == Reports \cup Unrecognised

\* one more position is queried
requery ==
    /\ proc = "up"
    /\ tray
    /\ position # NoPosition
    /\ position' = NoPosition
    /\ m114' = <<>>
    /\ UNCHANGED <<counterVars, seqVars, stageObj, stageConn, trayObj, locator,
                   x550Obj, cupVars, cfg_before, beamVars>>

ParseNext ==
    \/ \E s \in M114Responses : TrayConnection_get_position(s)
    \/ requery

ParseSpec == ReadyInit /\ [][ParseNext]_vars

\* ------------------------------------------------------------------------
\* Single tests, the photo and the Save Folder button
\* ------------------------------------------------------------------------

\* what POST /api/v2/test/final meets in a single test: a 2xx answer whose
\* body is JSON or is not, another status, the 60 s timeout, another error
QuickAnswers == {"json", "not_json", "non2xx", "timeout", "exception"}

\* (variant: the number is drawn for every 2xx answer)
x550_quick_test_draws_on_2xx(t, connected, resp) ==
    /\ proc = "up" /\ pc[t] = "idle"
    /\ TEST_COUNTER <= MaxCounter
    /\ test_r' = [test_r EXCEPT ![t] = IF connected THEN resp
                                       ELSE "not connected"]
    /\ IF connected /\ resp \in {"json", "not_json"}
       THEN /\ op' = [op EXCEPT ![t] = "single"]
            /\ startCounter' = [startCounter EXCEPT ![t] = TEST_COUNTER]
            /\ cfg_before' = cfg
            /\ Enter(t)
       ELSE UNCHANGED <<op, startCounter, cfg_before, pc, writes, saved>>
    /\ UNCHANGED <<proc, TEST_COUNTER, cfg, tmp, current, reg, attempt, config,
                   issued, lastRet, loaded, TRAY_SEQUENCE_ROW, test_num, draws,
                   used, i, combo_count, results, startRow, advAttempts,
                   sendFailed, stageVars, fwd_status, applied, wire,
                   mode, row_read, fwd_pc,
                   abortedAt, abort_report>>
    /\ UNCHANGED <<stageObj, stageConn, trayObj, locator, x550Obj, cupVars,
                   parser, beamVars>>

\* x550_quick_test and x550_quick_soil_test (they differ in the mode sent):
\* the early returns, the trigger, and for a 2xx answer test_r.json() and
\* then get_next_test_number; json() raising ends in the bare except.
x550_quick_test(t, connected, resp) ==
    /\ proc = "up" /\ pc[t] = "idle"
    /\ TEST_COUNTER <= MaxCounter
    /\ test_r' = [test_r EXCEPT ![t] = IF connected THEN resp
                                       ELSE "not connected"]
    /\ IF connected /\ resp = "json"
       THEN /\ op' = [op EXCEPT ![t] = "single"]
            /\ startCounter' = [startCounter EXCEPT ![t] = TEST_COUNTER]
            /\ cfg_before' = cfg
            /\ Enter(t)
       ELSE UNCHANGED <<op, startCounter, cfg_before, pc, writes, saved>>
    /\ UNCHANGED <<proc, TEST_COUNTER, cfg, tmp, current, reg, attempt, config,
                   issued, lastRet, loaded, TRAY_SEQUENCE_ROW, test_num, draws,
                   used, i, combo_count, results, startRow, advAttempts,
                   sendFailed, stageVars, fwd_status, applied, wire,
                   mode, row_read, fwd_pc,
                   abortedAt, abort_report>>
    /\ UNCHANGED <<stageObj, stageConn, trayObj, locator, x550Obj, cupVars,
                   parser, beamVars>>

\* take_photo: the early returns (analyzer not connected, no output folder,
\* makedirs raised: ready = FALSE), then the screenshot endpoints in turn;
\* shot: one of them answers 200, and get_next_test_number names the file.
take_photo(t, ready, shot) ==
    /\ proc = "up" /\ pc[t] = "idle"
    /\ TEST_COUNTER <= MaxCounter
    /\ test_r' = [test_r EXCEPT ![t] = IF ready /\ shot THEN "screenshot"
                                       ELSE "no screenshot"]
    /\ IF ready /\ shot
       THEN /\ op' = [op EXCEPT ![t] = "photo"]
            /\ startCounter' = [startCounter EXCEPT ![t] = TEST_COUNTER]
            /\ cfg_before' = cfg
            /\ Enter(t)
       ELSE UNCHANGED <<op, startCounter, cfg_before, pc, writes, saved>>
    /\ UNCHANGED <<proc, TEST_COUNTER, cfg, tmp, current, reg, attempt, config,
                   issued, lastRet, loaded, TRAY_SEQUENCE_ROW, test_num, draws,
                   used, i, combo_count, results, startRow, advAttempts,
                   sendFailed, stageVars, fwd_status, applied, wire,
                   mode, row_read, fwd_pc,
                   abortedAt, abort_report>>
    /\ UNCHANGED <<stageObj, stageConn, trayObj, locator, x550Obj, cupVars,
                   parser, beamVars>>

\* the rest of a single test or of take_photo: the files named by test_num
\* are written; whatever raises is caught
single_finish(t) ==
    /\ proc = "up" /\ pc[t] = "triggers" /\ op[t] \in {"single", "photo"}
    /\ pc' = [pc EXCEPT ![t] = "idle"]
    /\ op' = [op EXCEPT ![t] = "none"]
    /\ test_num' = [test_num EXCEPT ![t] = 0]
    /\ draws' = [draws EXCEPT ![t] = 0]
    /\ UNCHANGED <<proc, TEST_COUNTER, cfg, tmp, current, reg, attempt, config,
                   issued, lastRet, loaded, writes, saved,
                   TRAY_SEQUENCE_ROW, used, seqLocals, stageVars,
                   obsVars>>
    /\ UNCHANGED devVars

\* the folders the operator enters
Folders == {"C:/data", "D:/runs"}

\* save_folder, btn-save-folder, first half: the whole file is read; any
\* exception gives {}.  JSON that is not an object is kept, and the
\* assignment of folder_path to it raises outside the try: the callback ends.
save_folder_read(t, ioerr) ==
    /\ proc = "up" /\ pc[t] = "idle"
    /\ LET c == read_config(cfg, ioerr)
       IN  IF c.kind = "nonobject"
           THEN /\ test_r' = [test_r EXCEPT ![t] = "TypeError"]
                /\ UNCHANGED <<config, pc, op>>
           ELSE /\ config' = [config EXCEPT ![t] = c]
                /\ pc' = [pc EXCEPT ![t] = "sf_write"]
                /\ op' = [op EXCEPT ![t] = "save_folder"]
                /\ UNCHANGED test_r
    /\ UNCHANGED <<proc, TEST_COUNTER, cfg, tmp, current, reg, attempt,
                   issued, lastRet, loaded, writes, saved, TRAY_SEQUENCE_ROW,
                   test_num, draws, used, seqLocals, stageVars, fwd_status,
                   applied, wire,
                   mode, row_read, fwd_pc, abortedAt, abort_report>>
    /\ UNCHANGED devVars

\* save_folder, second half: config['folder_path'] = folder and the whole
\* dict is written over the file; written = FALSE: open raised (caught)
save_folder_write(t, folder, written) ==
    /\ proc = "up" /\ pc[t] = "sf_write"
    /\ cfg' = IF written THEN [config[t] EXCEPT !.folder = folder] ELSE cfg
    /\ config' = [config EXCEPT ![t] = EmptyDict]
    /\ pc' = [pc EXCEPT ![t] = "idle"]
    /\ op' = [op EXCEPT ![t] = "none"]
    /\ UNCHANGED <<proc, TEST_COUNTER, tmp, current, reg, attempt,
                   issued, lastRet, loaded, writes, saved, TRAY_SEQUENCE_ROW,
                   test_num, draws, used, seqLocals, stageVars, obsVars>>
    /\ UNCHANGED devVars

\* The test buttons, the photo and Save Folder, one callback at a time.
TestNext ==
    \/ \E connected \in BOOLEAN, resp \in QuickAnswers :
          x550_quick_test("t1", connected, resp)
    \/ \E ready \in BOOLEAN, shot \in BOOLEAN : take_photo("t1", ready, shot)
    \/ x550_quick_combo_test_2("t1")
    \/ get_next_test_number("t1")
    \/ single_finish("t1")
    \/ quick_combo_finish("t1")
    \/ \E ioerr \in BOOLEAN : save_folder_read("t1", ioerr)
    \/ \E folder \in Folders, written \in BOOLEAN :
          save_folder_write("t1", folder, written)

TestSpec == Init /\ [][TestNext]_vars

\* A test on one request thread while Save Folder runs on the other.
WriterNext ==
    \/ x550_quick_test("t1", TRUE, "json")
    \/ get_next_test_number("t1")
    \/ single_finish("t1")
    \/ \E ioerr \in BOOLEAN : save_folder_read("t2", ioerr)
    \/ \E folder \in Folders, written \in BOOLEAN :
          save_folder_write("t2", folder, written)

WriterSpec == Init /\ [][WriterNext]_vars

\* ------------------------------------------------------------------------
\* 550 app: beam durations (load_beams, apply_beams, _set_beam_durations)
\* ------------------------------------------------------------------------

_DURATION_KEYS == {"duration", "durationSec", "durationSecs",
                   "durationSeconds", "testTimeSeconds"}

\* k.lower() for the keys that occur
lower(k) ==
    CASE k = "Duration" -> "duration"
      [] k = "durationSec" -> "durationsec"
      [] k = "durationSecs" -> "durationsecs"
      [] k = "durationSeconds" -> "durationseconds"
      [] k = "testTimeSeconds" -> "testtimeseconds"
      [] k = "beamTimes" -> "beamtimes"
      [] k = "testType" -> "testtype"
      [] OTHER -> k

\* (variant: every number of a beam is taken for a duration)
is_duration_key_any(k) == k # "name"

\* k in _DURATION_KEYS or k.lower() in {s.lower() for s in _DURATION_KEYS}
is_duration_key(k) ==
    k \in _DURATION_KEYS \/ lower(k) \in {lower(x) : x \in _DURATION_KEYS}

\* max(1, int(round(dur * 1000)))
beam_ms(dur) == IF dur * 1000 < 1 THEN 1 ELSE dur * 1000

has_list(c, key) ==
    c.t = "dict" /\ key \in DOMAIN c.v /\ c.v[key].t = "list"

\* cfg["beamTimes"] = [ms for _ in cfg["beamTimes"]]
set_beam_times(c, dur) ==
    Dict([c.v EXCEPT !["beamTimes"] =
              List([j \in 1..Len(@.v) |-> Num(beam_ms(dur))])])

RECURSIVE _set_beam_durations(_, _)
\* the loop body for one element b of cfg["beams"]
set_beam(b, dur) ==
    IF b.t # "dict" THEN b
    ELSE Dict([k \in DOMAIN b.v |->
                 IF is_duration_key(k) THEN Num(dur)
                 ELSE IF b.v[k].t \in {"dict", "list"}
                      THEN _set_beam_durations(b.v[k], dur)
                      ELSE b.v[k]])

\* _set_beam_durations changes its argument in place; this is the value
\* afterwards
_set_beam_durations(c, dur) ==
    IF c.t = "dict"
    THEN LET c1 == IF has_list(c, "beamTimes")
                   THEN set_beam_times(c, dur) ELSE c
             c2 == IF has_list(c1, "beams")
                   THEN Dict([c1.v EXCEPT !["beams"] =
                           List([j \in 1..Len(@.v) |-> set_beam(@.v[j], dur)])])
                   ELSE c1
         IN  Dict([k \in DOMAIN c2.v |->
                     IF c2.v[k].t \in {"dict", "list"}
                     THEN _set_beam_durations(c2.v[k], dur)
                     ELSE c2.v[k]])
    ELSE IF c.t = "list"
         THEN List([j \in 1..Len(c.v) |-> _set_beam_durations(c.v[j], dur)])
         ELSE c

\* apply_beams: what is PUT for store-acq = c and sec seconds
new_cfg(c, sec) ==
    IF has_list(c, "beamTimes") THEN set_beam_times(c, sec)
    ELSE _set_beam_durations(c, sec)

\* what GET acquisitionParams/user answers: the minimal schema with n
\* beamTimes in milliseconds, or the classic schema with n beams
minimal_schema(n, ms) ==
    Dict([beamTimes |-> List([j \in 1..n |-> Num(ms)]),
          testType |-> Str("final"),
          flags |-> Dict([vacuum |-> Num(0), duration |-> Num(7)])])

beam(key, d) ==
    Dict((key :> Num(d)) @@
         [name |-> Str("beam"), voltage |-> Num(40),
          filter |-> Dict([id |-> Num(3), durationSec |-> Num(d)])])

classic_schema(n, key, d) ==
    Dict([mode |-> Str("Mining"),
          beams |-> List([j \in 1..n |-> beam(key, d)]),
          limits |-> Dict([testTimeSeconds |-> Num(90)])])

AcqConfigs ==
    {minimal_schema(n, ms) : n \in 0..MaxBeams, ms \in {500, 10000, 30000}}
    \cup {classic_schema(n, key, d) :
             n \in 0..MaxBeams,
             key \in {"duration", "Duration", "durationSeconds",
                      "testTimeSeconds"},
             d \in {10, 30, 60}}

\* load_beams with base and mode set: the answer is stored
load_beams(c) ==
    /\ acq' = c
    /\ put' = NoConfig
    /\ UNCHANGED <<counterVars, seqVars, stageObj, stageConn, trayObj, locator,
                   x550Obj, cupVars, cfg_before, parser>>

\* apply_beams with base and mode set and sec > 0: without a loaded dict it
\* returns "Load beams first."
apply_beams(sec) ==
    /\ acq.t = "dict"
    /\ put' = new_cfg(acq, sec)
    /\ UNCHANGED <<counterVars, seqVars, stageObj, stageConn, trayObj, locator,
                   x550Obj, cupVars, cfg_before, parser, acq>>

BeamNext ==
    \/ \E c \in AcqConfigs : load_beams(c)
    \/ \E sec \in 1..MaxSec : apply_beams(sec)

BeamSpec == Init /\ [][BeamNext]_vars

\* ------------------------------------- Forward, the jog buttons, the mode
\* A data row of tray_sequence.txt as the Forward step sees it: two numbers
\* ("move"), fewer than two tab-separated fields ("short"), a field that
\* float() rejects ("text")
RowKinds == {"move", "short", "text"}

\* tray_sequence.txt with the header, a first data row (which the cursor,
\* starting at FIRST_ROW, never reads) and the data rows q
FwdTable(q) == [exists |-> TRUE, lines |-> <<"header", "move">> \o q]

\* no file, or a file whose rows from FIRST_ROW on are of any kind
FwdTables ==
    {NoTable} \cup
    {FwdTable(q) : q \in UNION {[1..n -> RowKinds] : n \in 0..(MaxRows - 1)}}

\* the tray is connected, a tray_sequence.txt of any content may be there
ForwardInit ==
    /\ InitCommon
    /\ tray = TRUE
    /\ table \in FwdTables

\* tray_checks, btn-forward-sequence, on the request thread that serves the
\* button, up to the parsing of the row under the cursor: the early returns
\* for a missing file, the end of the file, a short row and a ValueError
forward_check ==
    /\ proc = "up" /\ tray
    /\ fwd_pc = "idle"
    /\ IF row_ready(table, TRAY_SEQUENCE_ROW)
       THEN /\ fwd_pc' = "g91"
            /\ row_read' = [row_read EXCEPT !["button"] = TRAY_SEQUENCE_ROW]
            /\ fwd_status' = "none"
       ELSE /\ fwd_status' = "skipped"
            /\ UNCHANGED <<fwd_pc, row_read>>
    /\ UNCHANGED <<counterVars, op, TRAY_SEQUENCE_ROW, test_num, draws, used,
                   seqLocals, stageVars, test_r, applied, wire, mode,
                   abortedAt, abort_report>>
    /\ UNCHANGED devVars

\* one _send of the manual Forward step: G91, the G0 of the row parsed, G90;
\* a send that raises ends the callback in its except branch (bound: a G90
\* raises only when at most one move more than the cursor counts is written)
forward_send ==
    /\ proc = "up"
    /\ fwd_pc \in {"g91", "g0", "g90"}
    /\ \/ /\ fwd_pc' = CASE fwd_pc = "g91" -> "g0"
                         [] fwd_pc = "g0" -> "g90"
                         [] fwd_pc = "g90" -> "row_inc"
          /\ mode' = mode_after(mode, fwd_pc)
          /\ applied' = IF fwd_pc = "g0"
                          THEN Append(applied, row_read["button"])
                          ELSE applied
          /\ UNCHANGED <<fwd_status, row_read>>
       \/ /\ fwd_pc = "g90" =>
                Len(applied) <= TRAY_SEQUENCE_ROW - FIRST_ROW + 1
          /\ fwd_pc' = "idle"
          /\ fwd_status' = "raised"
          /\ row_read' = [row_read EXCEPT !["button"] = 0]
          /\ UNCHANGED <<applied, mode>>
    /\ UNCHANGED <<counterVars, op, TRAY_SEQUENCE_ROW, test_num, draws, used,
                   seqLocals, stageVars, test_r, wire, abortedAt,
                   abort_report>>
    /\ UNCHANGED devVars

\* TRAY_SEQUENCE_ROW += 1 of the manual Forward step, and its return
forward_row_inc ==
    /\ proc = "up"
    /\ fwd_pc = "row_inc"
    /\ TRAY_SEQUENCE_ROW' = TRAY_SEQUENCE_ROW + 1
    /\ fwd_pc' = "idle"
    /\ fwd_status' = "moved"
    /\ row_read' = [row_read EXCEPT !["button"] = 0]
    /\ UNCHANGED <<counterVars, op, test_num, draws, used, seqLocals,
                   stageVars, test_r, applied, wire, mode, abortedAt,
                   abort_report>>
    /\ UNCHANGED devVars

\* the send of a jog that raises, if one does
JogRaises == {"none", "G91", "G0", "G90"}

\* tray_checks, btn-x-plus .. btn-z-minus: G91, "G0 <axis><step> F3000", G90
\* with no try around them; a send that raises ends the callback
btn_jog(raises) ==
    /\ proc = "up" /\ tray
    /\ mode' = CASE raises = "none" -> "absolute"
                 [] raises = "G91" -> mode
                 [] OTHER -> "relative"
    /\ tc_call' = [op |-> "jog",
                   port |-> IF raises = "none" THEN "answering" ELSE "broken",
                   raised |-> IF raises = "none"
                                THEN "none" ELSE "SerialException",
                   wrote |-> raises # "G91", ret |-> "None"]
    /\ UNCHANGED <<counterVars, op, TRAY_SEQUENCE_ROW, test_num, draws, used,
                   seqLocals, stageVars, test_r, fwd_status, applied, wire,
                   row_read, fwd_pc, abortedAt, abort_report>>
    /\ UNCHANGED <<stageObj, stageConn, leaked, tray_out, conn_data, locator,
                   x550Obj, cupVars, cfg_before, parser, beamVars>>

\* Sequence 2 of MaxReps repetitions on one request thread, the Forward
\* button on another.  (Sequence 3 executes the same Forward step after
\* resetting the cursor at its start.)
ForwardNext ==
    \/ start_sequence("t1", "seq2", TRUE, MaxReps)
    \/ seq_step("t1")
    \/ forward_check
    \/ forward_send
    \/ forward_row_inc

ForwardSpec == ForwardInit /\ [][ForwardNext]_vars

\* Sequence 2 on one request thread; the Forward button, the jog buttons and
\* Position Tray on others, each button callback as a whole.
ModeNext ==
    \/ start_sequence("t1", "seq2", TRUE, MaxReps)
    \/ seq_step("t1")
    \/ btn_forward_sequence
    \/ \E raises \in JogRaises : btn_jog(raises)
    \/ \E b \in OpenBehaviours : btn_position_tray(b)

ModeSpec == ReadyInit /\ [][ModeNext]_vars

\* =================================================================
\* Claims
\* =================================================================

\* C1: within one process, calls of get_next_test_number that do not overlap
\* return values that increase by exactly 1 per call, whether or not the
\* config file could be written.
C1_ReturnsIncreaseByOne ==
    \A t \in Threads :
        (pc[t] = "gn_ret" /\ lastRet # 0) => current[t] = lastRet + 1

\* a second call of the process returns after all of its writes failed
C1_Witness ==
    /\ pc["t1"] = "gn_ret" /\ lastRet # 0
    /\ ~saved["t1"] /\ writes["t1"] = max_retries

\* C2 (as claimed): over the whole life of the config file no number is
\* returned twice, whatever restarts, failed writes and file damage happen.
C2_NeverReused ==
    \A t \in Threads : pc[t] = "gn_ret" => current[t] \notin issued

\* the number a thread holds: about to be returned, or in use by its callback
holding(t) ==
    IF pc[t] = "gn_ret" THEN current[t]
    ELSE IF pc[t] = "triggers" THEN test_num[t] ELSE 0

\* C3 (as claimed): two callbacks that draw their numbers at overlapping
\* times never hold the same test number.
C3_OverlappingCallsDiffer ==
    \A t, u \in Threads :
        (t # u /\ holding(t) # 0 /\ holding(u) # 0) => holding(t) # holding(u)

\* C4 (as claimed): after a restart with test_counter = K in the file, the
\* first number returned is K+1.
C4_FirstAfterRestartIsKPlusOne ==
    \A t \in Threads :
        (pc[t] = "gn_ret" /\ lastRet = 0 /\ loaded.has_tc)
            => current[t] = loaded.tc + 1

\* C4 (amended): after a restart in which load_test_counter read
\* test_counter = K from the file, the first number returned is K: the file
\* holds the next number to issue.
C4_FirstAfterRestartIsK ==
    \A t \in Threads :
        (pc[t] = "gn_ret" /\ lastRet = 0 /\ loaded.has_tc)
            => current[t] = loaded.tc

\* the first call after a restart that loaded 2 is about to return
C4_Witness ==
    /\ pc["t1"] = "gn_ret" /\ lastRet = 0
    /\ loaded.has_tc /\ loaded.tc = 2

\* C5 (as claimed): every file operation of the counter write leaves the
\* config file holding its complete old content or the complete new content.
C5_WriteIsAtomic ==
    [][\A t \in Threads :
          (pc[t] \in {"gn_tmp", "gn_remove", "gn_move"} /\ pc'[t] # pc[t]
              /\ proc' = "up")
          => \/ cfg' = cfg
             \/ cfg'.kind = "object" /\ cfg'.has_tc /\ cfg'.tc = TEST_COUNTER
      ]_vars

\* the process is up and has neither issued nor started to issue a number
fresh == proc = "up" /\ lastRet = 0 /\ \A t \in Threads : pc[t] = "idle"

\* C6 (as claimed): load_test_counter never fails, and leaves TEST_COUNTER at
\* the file's test_counter when that key was read and at 1 otherwise.
C6_LoadNeverFails ==
    /\ proc # "failed"
    /\ fresh => TEST_COUNTER = IF loaded.has_tc THEN loaded.tc
                                ELSE DEFAULT_TEST_COUNTER

\* C7: get_next_test_number makes at most max_retries write attempts, makes
\* none after one that succeeded, returns the value the counter had before
\* its increment, and always returns.
C7_BoundedRetry ==
    /\ [](\A t \in Threads :
            /\ attempt[t] < max_retries /\ writes[t] <= max_retries
            /\ saved[t] => pc[t] \notin {"gn_read", "gn_tmp", "gn_remove", "gn_move"}
            /\ pc[t] = "gn_ret" =>
                  /\ current[t] + 1 = TEST_COUNTER
                  /\ saved[t] \/ writes[t] = max_retries)
    /\ \A t \in Threads : (pc[t] = "gn_83") ~> (pc[t] = "triggers")

\* a call returns after all of its attempts failed
C7_Witness ==
    pc["t1"] = "gn_ret" /\ ~saved["t1"] /\ writes["t1"] = max_retries


\* positions of a sequence callback between the draw of the repetition's
\* number and the end of the repetition
inRepetition(t) ==
    /\ op[t] \in SeqKinds
    /\ pc[t] \in {"triggers", "soil", "advance", "g91", "g0", "g90", "row_inc"}

\* C8: in a combo sequence every repetition draws exactly one number, before
\* its first trigger, both triggers and all files of the repetition carry
\* that number, and after the whole run TEST_COUNTER has advanced by the
\* number of repetitions, whatever the triggers answered.
C8_OneNumberPerRepetition ==
    \A t \in Threads :
        op[t] \in SeqKinds =>
            /\ inRepetition(t) =>
                  /\ draws[t] = 1
                  /\ test_num[t] = lastRet
                  /\ used[t] \subseteq {test_num[t]}
            /\ pc[t] \in {"soil", "advance"} => used[t] = {test_num[t]}
            /\ draws[t] = 0 => used[t] = {}
            /\ pc[t] = "loop" => TEST_COUNTER = startCounter[t] + i[t]
            /\ pc[t] = "seq_done" =>
                  TEST_COUNTER = startCounter[t] + combo_count[t]

\* a full run of two repetitions in which a trigger failed
C8_Witness ==
    \E t \in Threads :
        /\ op[t] \in SeqKinds /\ pc[t] = "seq_done"
        /\ combo_count[t] = 2
        /\ \E n \in 1..Len(results[t]) : results[t][n] = "failed"
        /\ TEST_COUNTER = startCounter[t] + 2

\* C9: in sequences 2 and 3 a failed Mining trigger does not end the
\* repetition: every repetition records its Mining and its Soil trigger
\* (two entries of results per finished repetition, the Soil entry pending
\* while the Mining one is the last), and every repetition but the last
\* attempts the stage advance.
C9_FailedMiningKeepsRepetition ==
    \A t \in Threads :
        op[t] \in {"seq2", "seq3"} =>
            /\ pc[t] = "soil" => Len(results[t]) = 2 * i[t] + 1
            /\ pc[t] = "advance" => Len(results[t]) = 2 * i[t] + 2
            /\ pc[t] \in {"loop", "seq_done"} =>
                  /\ Len(results[t]) = 2 * i[t]
                  /\ advAttempts[t] = IF i[t] < combo_count[t]
                                        THEN i[t]
                                        ELSE combo_count[t] - 1

\* the first repetition of a sequence 2 or 3 is over, its Mining trigger
\* failed, its Soil trigger was sent and its stage advance attempted
C9_Witness ==
    \E t \in Threads :
        /\ op[t] \in {"seq2", "seq3"} /\ pc[t] = "loop"
        /\ i[t] = 1 /\ combo_count[t] = 2
        /\ Len(results[t]) = 2 /\ results[t][1] = "failed"
        /\ advAttempts[t] = 1

\* C10 (as claimed): a full run of N repetitions of sequence 2 or 3, started
\* with the cursor at its initial row, the tray connected, an offset table of
\* at least N-1 data rows and no failing send, leaves the cursor N-1 rows
\* further.
C10_CursorAdvancesByNMinusOne ==
    \A t \in Threads :
        ( /\ op[t] \in {"seq2", "seq3"} /\ pc[t] = "seq_done"
          /\ startRow[t] = FIRST_ROW
          /\ tray /\ table.exists
          /\ Len(table.lines) - 1 >= combo_count[t] - 1
          /\ ~sendFailed[t] )
        => TRAY_SEQUENCE_ROW = startRow[t] + combo_count[t] - 1

\* C11 (as claimed): counted from the initial or reset cursor, the k-th row
\* whose move is written to the port is the k-th data row of the table, that
\* is lines[k] (lines[0] being the header), as long as no row is applied
\* twice.
C11_KthAdvanceAppliesKthRow ==
    (\A k \in 1..(Len(applied) - 1) : applied[k] < applied[k + 1])
    => \A k \in 1..Len(applied) : applied[k] = k

\* C12 (as claimed): once Abort has run during a sequence, the loop records
\* at most the trigger that was in flight and then stops: no further trigger
\* is sent.
C12_AbortStopsLoop ==
    \A t \in Threads :
        abortedAt[t] >= 0 => Len(results[t]) <= abortedAt[t] + 1

\* C13 (as claimed): the cursor goes back to its initial row only by the
\* Reset-sequence action (the documented reset of an accepted start of
\* sequence 3 is let pass too): no rejected start, failed trigger or failed
\* move puts it back.
C13_OnlyResetRewinds ==
    [][ (TRAY_SEQUENCE_ROW # FIRST_ROW /\ TRAY_SEQUENCE_ROW' = FIRST_ROW)
        => \/ btn_reset_sequence
           \/ \E t \in Threads : op[t] = "none" /\ op'[t] = "seq3" ]_vars

\* C14: the cursor moves forward only by one row, in a step after which the
\* move of the row it leaves has been written and the G90 of the advance has
\* closed it; a step in which a send of an advance raises (in a sequence or
\* in the manual Forward) leaves the cursor where it is; and no step of a
\* running sequence or of the manual Forward moves the cursor backwards.
C14_CursorMovesAfterTheMove ==
    [][ /\ TRAY_SEQUENCE_ROW' > TRAY_SEQUENCE_ROW =>
              /\ TRAY_SEQUENCE_ROW' = TRAY_SEQUENCE_ROW + 1
              /\ Len(applied') > 0
              /\ applied'[Len(applied')] = TRAY_SEQUENCE_ROW
              /\ wire' = <<>>
        /\ (\E t \in Threads : sendFailed'[t] /\ ~sendFailed[t]) =>
              TRAY_SEQUENCE_ROW' = TRAY_SEQUENCE_ROW
        /\ fwd_status' = "raised" => TRAY_SEQUENCE_ROW' = TRAY_SEQUENCE_ROW
        /\ ( \/ \E t \in Threads : op[t] \in {"seq2", "seq3"}
             \/ fwd_status' \in {"moved", "raised", "skipped"} ) =>
              TRAY_SEQUENCE_ROW' >= TRAY_SEQUENCE_ROW ]_vars

\* in a sequence the G90 of an advance has raised after the move of the row
\* was written, and the cursor is still on that row
C14_Witness ==
    \E t \in Threads :
        /\ op[t] \in {"seq2", "seq3"} /\ sendFailed[t]
        /\ Len(applied) > 0 /\ applied[Len(applied)] = TRAY_SEQUENCE_ROW
        /\ TRAY_SEQUENCE_ROW = startRow[t]

\* C15: in a run of sequence 2 or 3 the stage advance is attempted after
\* each repetition but the last: an advance in progress follows both triggers
\* of its repetition, which is not the last one; up to the end of its
\* triggers repetition i has seen i attempts; and the run ends after
\* combo_count - 1 attempts.
C15_AdvanceAfterAllButLast ==
    \A t \in Threads :
        op[t] \in {"seq2", "seq3"} =>
            /\ pc[t] \in {"g91", "g0", "g90", "row_inc"} =>
                  /\ advAttempts[t] = i[t] + 1
                  /\ i[t] < combo_count[t] - 1
                  /\ Len(results[t]) = 2 * (i[t] + 1)
            /\ pc[t] \notin {"g91", "g0", "g90", "row_inc", "loop", "seq_done"}
                  => advAttempts[t] = i[t]
            /\ pc[t] = "seq_done" =>
                  /\ i[t] = combo_count[t]
                  /\ advAttempts[t] = combo_count[t] - 1

\* a run of two repetitions is over after one attempted advance
C15_Witness ==
    \E t \in Threads :
        /\ op[t] \in {"seq2", "seq3"} /\ pc[t] = "seq_done"
        /\ combo_count[t] = 2 /\ advAttempts[t] = 1
        /\ TRAY_SEQUENCE_ROW = startRow[t] + 1

\* C16 (as claimed): a restart of the process leaves the cursor at the value
\* it had when the process stopped.
C16_CursorSurvivesRestart ==
    [][ (proc # "up" /\ proc' = "up")
        => TRAY_SEQUENCE_ROW' = TRAY_SEQUENCE_ROW ]_vars

\* C17: a run of sequence 2 or 3 that has started reaches the end of its
\* loop, and it gets there only after all combo_count repetitions with their
\* two triggers each, whatever failed on the way (triggers, result files,
\* saves of the counter, sends to the stage).
C17_RunExecutesAllRepetitions ==
    /\ [](\A t \in Threads :
             (op[t] \in {"seq2", "seq3"} /\ pc[t] = "seq_done") =>
                 /\ i[t] = combo_count[t]
                 /\ Len(results[t]) = 2 * combo_count[t])
    /\ \A t \in Threads :
          (op[t] \in {"seq2", "seq3"} /\ pc[t] = "loop" /\ i[t] = 0)
              ~> (op[t] \in {"seq2", "seq3"} /\ pc[t] = "seq_done")

\* the end of a run of two repetitions in which a trigger failed, a send to
\* the stage raised and the counter was not saved
C17_Witness ==
    \E t \in Threads :
        /\ op[t] \in {"seq2", "seq3"} /\ pc[t] = "seq_done"
        /\ combo_count[t] = 2
        /\ \E n \in 1..Len(results[t]) : results[t][n] = "failed"
        /\ sendFailed[t]
        /\ ~(cfg.kind = "object" /\ cfg.has_tc /\ cfg.tc = TEST_COUNTER)

\* C18: results holds one entry per trigger, in the order Mining, Soil of
\* each repetition; the entry of the trigger just answered is OK exactly when
\* the answer was a 2xx answer processed without error; after the run there
\* are 2 * combo_count entries, combo_count numbers have been drawn and
\* combo_count - 1 advances attempted (sequences 2 and 3).
C18_OneOutcomePerTrigger ==
    \A t \in Threads :
        op[t] \in SeqKinds =>
            /\ \A n \in 1..Len(results[t]) : results[t][n] \in {"OK", "failed"}
            /\ pc[t] \in {"soil", "advance"} =>
                  /\ Len(results[t]) =
                        2 * i[t] + (IF pc[t] = "soil" THEN 1 ELSE 2)
                  /\ (results[t][Len(results[t])] = "OK") <=> (test_r[t] = "ok")
            /\ pc[t] = "seq_done" =>
                  /\ Len(results[t]) = 2 * combo_count[t]
                  /\ TEST_COUNTER - startCounter[t] = combo_count[t]
                  /\ op[t] # "seq1" => advAttempts[t] = combo_count[t] - 1

\* the run of 3 repetitions whose second repetition failed: 6 entries, those
\* of repetition 2 failed, the others OK, 3 numbers drawn, the stage advanced
\* twice
C18_Witness ==
    \E t \in Threads :
        /\ op[t] = "seq2" /\ pc[t] = "seq_done"
        /\ combo_count[t] = 3
        /\ results[t] = <<"OK", "OK", "failed", "failed", "OK", "OK">>
        /\ TEST_COUNTER = startCounter[t] + 3
        /\ advAttempts[t] = 2
        /\ TRAY_SEQUENCE_ROW = startRow[t] + 2

\* C19: a step in which Abort runs changes neither TEST_COUNTER nor
\* TRAY_SEQUENCE_ROW nor the config file; an Abort that was not rejected
\* reports "aborted" whatever the paths answered, has posted to the paths in
\* order and has stopped at the first one that answered 2xx.
C19_AbortChangesNothing ==
    /\ [][ abort_report' # abort_report =>
              /\ TEST_COUNTER' = TEST_COUNTER
              /\ TRAY_SEQUENCE_ROW' = TRAY_SEQUENCE_ROW
              /\ cfg' = cfg ]_vars
    /\ [](/\ abort_report.message \in {"none", "aborted", "error"}
          /\ abort_report.message # "aborted" => abort_report.posts = 0
          /\ abort_report.message = "aborted" =>
                /\ abort_report.posts \in 1..Len(abort_report.answers)
                /\ \A m \in 1..(abort_report.posts - 1) :
                      abort_report.answers[m] # "ok"
                /\ abort_report.posts < Len(abort_report.answers) =>
                      abort_report.answers[abort_report.posts] = "ok")

\* Abort has run after a test number was drawn and the cursor moved, every
\* abort path failed, and the report is "aborted"
C19_Witness ==
    /\ abort_report.message = "aborted"
    /\ abort_report.posts = 2
    /\ abort_report.answers = <<"non2xx", "exception">>
    /\ TEST_COUNTER = 2
    /\ TRAY_SEQUENCE_ROW = 3

\* C20: no command of another operation is written to the serial port between
\* the G91 and the G90 of a stage advance of a sequence: the commands written
\* since the G91 of the advance in progress are G91 and G0 only.
C20_AdvanceIsNotInterleaved ==
    \A n \in 1..Len(wire) : wire[n] \in {"G91", "G0"}

\* C22: when a goto_x, goto_y or goto_z of SerialStage raises, the tracked
\* position is the one the call found.
C22_RaisedGotoKeepsPosition ==
    (stage_call.op \in {"goto_x", "goto_y", "goto_z"} /\ stage_call.raised)
        => stage_pos = stage_call.before

C27_LocatorPrecedence ==
    tray_port # -1 =>
        LET has_serial == truthy(tray_usb_serial) /\
                \E n \in 1..Len(ports) :
                    ports[n].serial_number = tray_usb_serial
            has_vidpid == \E n \in 1..Len(ports) :
                    ports[n].hwid \in prefer_vidpid
            has_keyword == \E n \in 1..Len(ports) :
                    ports[n].description \in prefer_keywords
        IN  /\ tray_port \in 0..Len(ports)
            /\ has_serial =>
                  /\ tray_port # 0
                  /\ ports[tray_port].serial_number = tray_usb_serial
            /\ (~has_serial /\ has_vidpid) =>
                  /\ tray_port # 0
                  /\ ports[tray_port].hwid \in prefer_vidpid
            /\ (~has_serial /\ ~has_vidpid /\ has_keyword) =>
                  /\ tray_port # 0
                  /\ ports[tray_port].description \in prefer_keywords
            /\ (~has_serial /\ ~has_vidpid /\ ~has_keyword) => tray_port = 0

\* a keyword-only device is listed first, a VID:PID device after it, the
\* configured serial number is on no device, and the VID:PID device is
\* returned
C27_Witness ==
    /\ Len(ports) = 3
    /\ tray_usb_serial = "B2"
    /\ ports[1].hwid \notin prefer_vidpid
    /\ ports[1].description \in prefer_keywords
    /\ ports[2].hwid \notin prefer_vidpid
    /\ ports[3].hwid \in prefer_vidpid
    /\ tray_port = 3

\* C29: when X550Connection.connect has scanned a range and the one place
\* answering the id request with a valid object was a port of that range on
\* the host scanned, it has returned True with base_url at that port, and the
\* last request it sent is the accepted one.
C29_OnlyAnsweringPortIsFound ==
    (/\ x550_call.op = "connect"
     /\ x550_call.env.host = x550_call.host
     /\ x550_call.env.port \in x550_call.port_start..x550_call.port_end)
        => /\ x550_call.ret
           /\ base_url = [host |-> x550_call.host,
                          port |-> x550_call.env.port]
           /\ probes # <<>>
           /\ probes[Len(probes)].port = x550_call.env.port
           /\ \A k \in 1..(Len(probes) - 1) :
                 answer(x550_call.env, probes[k].host, probes[k].port,
                        probes[k].path) # "valid"

\* C30: when connect_x550 has run a discovery with a fixed port, every
\* request went to that port on the host given, and the base URL it ended
\* with, if any, has that port.
C30_FixedPortOnly ==
    (/\ x550_call.op = "connect_x550"
     /\ x550_call.port_override # NoPort
     /\ probes # <<>>)
        => /\ \A k \in 1..Len(probes) :
                 /\ probes[k].port = x550_call.port_override
                 /\ probes[k].host = IF x550_call.host = "" THEN "127.0.0.1"
                                     ELSE x550_call.host
           /\ x550_call.ret => base_url.port = x550_call.port_override

\* C23: neither program ever holds more than one serial handle open.
C23_AtMostOneHandle ==
    /\ open_handles <= 1
    /\ stage_open_handles <= 1

\* C24: a connect to a port that opened and stayed silent has failed:
\* TrayConnection.connect has returned False, stage_connect has not reported
\* the stage connected.
C24_SilentPortFailsConnect ==
    /\ (tc_call.op = "connect" /\ tc_call.port = "silent")
          => tc_call.ret = "False"
    /\ stage_ready.port = "silent" => ~stage_ready.ok

\* C28: when connect_all has found no tray port, the error it returns lists
\* the devices that were detected.
C28_NotFoundNamesDevices ==
    (tray_port = 0 /\ conn_data.error.message # "None")
        => conn_data.error.devices = [n \in 1..Len(ports) |-> n]

\* C21: every axis of the position SerialStage tracks is >= 0, and no
\* absolute move with a negative coordinate has been written to the port,
\* by SerialStage or by TrayConnection.goto.
C21_NoNegativeAbsoluteMove ==
    /\ \A a \in Axes : stage_pos[a] >= 0
    /\ stage_out.coord >= 0
    /\ tray_out.x >= 0 /\ tray_out.y >= 0 /\ tray_out.z >= 0

\* C26: get_position parses a report in either label format, "X:10.00 Y:5.00
\* Z:0.00" and the variant with a period after X, to the position the report
\* states, and for a response without a position it raises ValueError with
\* the response in the message.
C26_BothFormatsSameTriple ==
    /\ \A sep \in Separators, x \in Reported, y \in Reported, z \in Lifts :
         \A rest \in {<<>>, count_suffix(x, y, z) \o ok_line} :
           (position # NoPosition /\ m114 = report(sep, x, y, z) \o rest)
               => position = [raised |-> "no", x |-> x, y |-> y, z |-> z,
                              message |-> <<>>]
    /\ (position # NoPosition /\ m114 \in Unrecognised)
           => (position.raised = "ValueError" /\ position.message = m114)

\* C31: after heartbeat has returned False the endpoint is invalidated:
\* base_url and api_root are unset, and the next connect_x550 runs discovery
\* again and does not return the stored URL.
C31_FailedHeartbeatInvalidates ==
    /\ [](x550_call.op = "heartbeat" /\ ~x550_call.ret
            => base_url = NoUrl /\ api_root = "None")
    /\ [][(x550_call.op = "heartbeat" /\ ~x550_call.ret
             /\ x550_call'.op = "connect_x550") => probes' # <<>>]_vars

\* C32: every analyzer request made after discovery goes to the base URL and
\* to the API root that discovery fixed.
C32_RequestsUseDiscoveredRoot ==
    sent_url # NoRequest
        => /\ sent_url.host = base_url.host
           /\ sent_url.port = base_url.port
           /\ sent_url.path \in
                  {api_root \o "/test/final", api_root \o "/test/abort",
                   api_root \o "/energyCal", api_root \o "/status",
                   api_root \o "/screenshot"}

\* C33: an operation that triggers no test, such as take_photo, leaves
\* TEST_COUNTER and the test_counter of the config file as they are.
C33_PhotoDrawsNoNumber ==
    [][(op["t1"] = "photo" \/ op'["t1"] = "photo")
          => /\ TEST_COUNTER' = TEST_COUNTER
             /\ cfg'.has_tc = cfg.has_tc
             /\ cfg'.tc = cfg.tc]_vars

\* C35: the test_counter stored in the config file never decreases (and is
\* not dropped from the file), whatever the interleaving of
\* get_next_test_number with the other writers of the file.
C35_StoredCounterNeverDecreases ==
    [][(cfg.kind = "object" /\ cfg.has_tc /\ cfg'.kind = "object")
          => (cfg'.has_tc /\ cfg'.tc >= cfg.tc)]_vars

\* C39: get_next_test_number changes only the test_counter key: when the
\* file it found was a JSON object, the file it leaves holds the same
\* folder_path and cup keys.
C39_OtherKeysKept ==
    [][(op["t1"] = "single" /\ pc["t1"] = "gn_ret" /\ pc'["t1"] = "triggers"
          /\ cfg_before.kind = "object")
          => /\ cfg.kind = "object"
             /\ cfg.folder = cfg_before.folder
             /\ cfg.cup = cfg_before.cup]_vars

\* C40: a single test draws exactly one test number when its trigger got a
\* 2xx answer with a JSON body, and none when the analyzer is not connected
\* or the trigger got no such answer; a combo test has drawn its number
\* before its triggers.
C40_SingleTestDrawsOnJsonOnly ==
    /\ [][(op["t1"] = "single" /\ op'["t1"] = "none")
             => (draws["t1"] = 1
                 /\ TEST_COUNTER = startCounter["t1"] + 1)]_vars
    /\ [][(pc["t1"] = "idle" /\ test_r'["t1"] # test_r["t1"]
             /\ test_r'["t1"] \in {"not connected", "not_json", "non2xx",
                                    "timeout", "exception"})
             => (pc'["t1"] = "idle" /\ TEST_COUNTER' = TEST_COUNTER
                 /\ cfg' = cfg /\ draws' = draws)]_vars
    /\ [][(op["t1"] = "quick" /\ op'["t1"] = "none")
             => draws["t1"] = 1]_vars

C40_Witness ==
    /\ op["t1"] = "single" /\ pc["t1"] = "triggers"
    /\ test_r["t1"] = "json"
    /\ draws["t1"] = 1
    /\ TEST_COUNTER = startCounter["t1"] + 1

RECURSIVE same_but_durations(_, _)
\* a and b have the same keys at every level and lists of the same length,
\* and differ at most in the numbers of duration fields and of beamTimes
same_but_durations(a, b) ==
    /\ a.t = b.t
    /\ CASE a.t = "dict" ->
              /\ DOMAIN a.v = DOMAIN b.v
              /\ \A k \in DOMAIN a.v :
                    \/ /\ is_duration_key(k)
                       /\ a.v[k].t = "num" /\ b.v[k].t = "num"
                    \/ /\ k = "beamTimes"
                       /\ a.v[k].t = "list" /\ b.v[k].t = "list"
                       /\ Len(a.v[k].v) = Len(b.v[k].v)
                       /\ \A j \in 1..Len(b.v[k].v) : b.v[k].v[j].t = "num"
                    \/ same_but_durations(a.v[k], b.v[k])
         [] a.t = "list" ->
              /\ Len(a.v) = Len(b.v)
              /\ \A j \in 1..Len(a.v) : same_but_durations(a.v[j], b.v[j])
         [] OTHER -> a.v = b.v

\* C34: applying a new beam duration changes only duration values: in the
\* configuration that is PUT back the keys at every level and the number of
\* beams are those of the loaded configuration, for the beamTimes list and
\* for the nested beams alike, and every other field has its value.
C34_OnlyDurationsChange ==
    put # NoConfig => same_but_durations(acq, put)

C34_Witness ==
    /\ put # NoConfig
    /\ has_list(acq, "beams") /\ Len(acq.v["beams"].v) = MaxBeams
    /\ put # acq
    /\ put.v["beams"].v[1].v["voltage"] = acq.v["beams"].v[1].v["voltage"]

\* C36: the check of the cursor, the move of the row and the increment of
\* a Forward step are not split between two callers (at most one caller is
\* between its check and its increment, also when the manual Forward button
\* runs during the stage advance of a running sequence), so that a step
\* which advances the cursor advances it by one and leaves the row that the
\* caller checked and moved: no row is applied twice, none is skipped.
C36_EachRowAppliedOnce ==
    [][ /\ Cardinality({c \in Callers : row_read'[c] # 0}) <= 1
        /\ TRAY_SEQUENCE_ROW' > TRAY_SEQUENCE_ROW =>
              /\ TRAY_SEQUENCE_ROW' = TRAY_SEQUENCE_ROW + 1
              /\ \E c \in Callers : /\ row_read[c] = TRAY_SEQUENCE_ROW
                                    /\ row_read'[c] = 0 ]_vars

\* C37: when a relative stage advance or jog has ended, normally or by an
\* exception raised in one of its sends, the stage is in absolute
\* positioning mode (no advance of a sequence is between its G91 and its
\* G90 => the mode is absolute), and an absolute goto (first cup, last cup,
\* position tray) is written only in absolute mode, so that it is never
\* executed as a relative move.
C37_AbsoluteModeAfterAdvance ==
    [][ /\ (\A t \in Threads : pc'[t] \notin {"g91", "g0", "g90"}) =>
              mode' = "absolute"
        /\ (tc_call' # tc_call /\ tc_call'.op = "goto" /\ tc_call'.wrote) =>
              mode = "absolute" ]_vars

\* C38: a Forward step (manual, or inside a sequence) that finds the table
\* file missing, the cursor at or past the end of the file, a short row or
\* a non-numeric field writes no command and leaves the cursor where it
\* is; and no step advances the cursor beyond the number of lines of the
\* table.
C38_SkippedForwardChangesNothing ==
    [][ /\ ( \/ fwd_status # "skipped" /\ fwd_status' = "skipped"
             \/ \E t \in Threads : /\ pc[t] = "advance" /\ pc'[t] = "loop"
                                   /\ advAttempts'[t] > advAttempts[t] ) =>
              /\ TRAY_SEQUENCE_ROW' = TRAY_SEQUENCE_ROW
              /\ applied' = applied /\ wire' = wire /\ mode' = mode
        /\ (table.exists /\ TRAY_SEQUENCE_ROW' > TRAY_SEQUENCE_ROW) =>
              TRAY_SEQUENCE_ROW' <= Len(table.lines) ]_vars

====
